---- MODULE Spec2Model ----
(***************************************************************************)
(* Verification model of the AdieuIQ recommendation backend:               *)
(*   - core/circuit_breaker.py          CircuitBreaker                     *)
(*   - services/fabric_client.py        FabricIQClient.get_usage_trends    *)
(*   - services/orchestration/*.py      the four agents + orchestrator     *)
(*                                                                         *)
(* Specifications                                                          *)
(*   SpecCB     one CircuitBreaker, concurrently interleaved call()s       *)
(*   SpecCBSeq  one CircuitBreaker, call()s made one after the other       *)
(*   SpecReason ReasoningAgent.run as a function of bounded inputs         *)
(*   Spec       generation cycles on one RecommendationOrchestrator        *)
(*   SpecApi    generation cycles driven through the API layer, which      *)
(*              builds a RecommendationService for every request           *)
(*                                                                         *)
(* Time is an integer clock; one clock unit stands for 30 s, so that the   *)
(* Fabric IQ breaker's timeout of 60.0 s is two units.                     *)
(***************************************************************************)
EXTENDS Integers, Sequences, FiniteSets, TLC

(***************************************************************************)
(* Bounds of the model                                                     *)
(***************************************************************************)
MaxTime == 5          \* the clock stops advancing here
MaxFailures == 7      \* cap on CircuitBreaker._failure_count
NumCallers == 3       \* concurrent call() invocations on one breaker
MaxUsage == 6         \* usage records handed to ReasoningAgent.run
MaxArticles == 3      \* knowledge articles handed to ReasoningAgent.run
MaxFlagged == 1       \* candidates a validation collaborator flags in one cycle
MaxCycles == 2        \* orchestrator runs started by one RecommendationService

(***************************************************************************)
(* CircuitBreaker constructor arguments (fabric_client.py:51-56)           *)
(***************************************************************************)
failure_threshold == 5
timeout == 2
half_open_max_calls == 1

CLOSED == "closed"
OPEN == "open"
HALF_OPEN == "half_open"
NoTime == -1          \* _last_failure_time = None

Callers == 1..NumCallers

VARIABLES
    breaker,          \* the CircuitBreaker instance: _state, _failure_count,
                      \* _last_failure_time, _half_open_calls
    now,              \* time.time()
    pc,               \* per call(): "idle" or "awaiting" (suspended at `await func`)
    role,             \* history: how an awaiting call was admitted ("normal"/"probe")
    ev,               \* history: the last step taken
    consec,           \* history: failures of the wrapped operation since its last success
    probe_fail_time,  \* history: time of the last failure of a call admitted as probe
    r_usage,          \* ReasoningAgent.run input: retrieval_result["usage_data"]
    r_articles,       \* ReasoningAgent.run input: retrieval_result["knowledge_articles"]
    r_out,            \* ReasoningAgent.run: the remaining inputs and the result
    env,              \* os.getenv("ENV"): "local" or "prod"
    o_pc,             \* generate_recommendations: position of the call
    retr,             \* RetrievalAgent.run of the current cycle
    sent,             \* SentimentAgent.run of the current cycle
    reas,             \* ReasoningAgent.run of the current cycle
    val,              \* ValidationAgent.run of the current cycle
    result,           \* what generate_recommendations returned
    hist,             \* history: the arguments of the call, which Phase-1 stage
                      \* completed first, the outcome of _log_agent_contributions
    f_in,             \* _filter_past_recommendations: its two arguments
    f_out,            \* _filter_past_recommendations: the list it returned
    g_in,             \* _apply_sentiment_filter: the candidates, the interaction
                      \* history and the sentiment result computed from it
    g_out,            \* _apply_sentiment_filter: the list it returned
    store,            \* the recommendations container: document by recommendation_id
    s_ret,            \* what the last operation on the container answered
    svc               \* RecommendationService: the documents of the container,
                      \* newest first, what generate_recommendations returned,
                      \* and history of that call

cbVars == <<breaker, now, pc, role, ev, consec, probe_fail_time>>
filterVars == <<f_in, f_out>>
gateVars == <<g_in, g_out>>
storeVars == <<store, s_ret>>
svcVars == <<svc>>
reasonVars == <<r_usage, r_articles, r_out, filterVars, gateVars, storeVars, svcVars>>
orchVars == <<env, o_pc, retr, sent, reas, val, result, hist>>

vars == <<cbVars, reasonVars, orchVars>>

(***************************************************************************)
(* CircuitBreaker                                                          *)
(***************************************************************************)
NewBreaker ==
    [state |-> CLOSED, failure_count |-> 0,
     last_failure_time |-> NoTime, half_open_calls |-> 0]

should_attempt_reset(b, t) ==
    IF b.last_failure_time = NoTime
    THEN FALSE
    ELSE (t - b.last_failure_time) >= timeout

\* faulty variant: only the first failure time is ever recorded
open_circuit_keeps_first_time(b, t) ==
    [b EXCEPT !.state = OPEN,
              !.last_failure_time = IF @ = NoTime THEN t ELSE @]

open_circuit(b, t) ==
    [b EXCEPT !.state = OPEN, !.last_failure_time = t]

\* faulty variant: closing the circuit keeps the failure count
close_circuit_keeps_count(b) ==
    [b EXCEPT !.state = CLOSED, !.half_open_calls = 0]

close_circuit(b) ==
    [b EXCEPT !.state = CLOSED, !.failure_count = 0, !.half_open_calls = 0]

half_open_circuit(b) ==
    [b EXCEPT !.state = HALF_OPEN, !.half_open_calls = 0]

\* faulty variant: a call rejected while Open restarts the timeout
call_admission_rejection_restarts_timeout(b, t) ==
    LET b1 == IF b.state = OPEN /\ should_attempt_reset(b, t)
              THEN half_open_circuit(b) ELSE b
        rejectOpen == b.state = OPEN /\ ~should_attempt_reset(b, t)
        rejectHalf == b1.state = HALF_OPEN
                      /\ b1.half_open_calls >= half_open_max_calls
        b2 == IF b1.state = HALF_OPEN
              THEN [b1 EXCEPT !.half_open_calls = @ + 1] ELSE b1
    IN  IF rejectOpen
        THEN [admitted |-> FALSE, probe |-> FALSE,
              b |-> [b EXCEPT !.last_failure_time = t]]
        ELSE IF rejectHalf THEN [admitted |-> FALSE, probe |-> FALSE, b |-> b1]
        ELSE [admitted |-> TRUE, probe |-> (b1.state = HALF_OPEN), b |-> b2]

\* call(), from entry to the suspension at `await func(...)` or to the raise of
\* CircuitBreakerOpenError: the breaker afterwards and whether func is invoked.
call_admission(b, t) ==
    LET b1 == IF b.state = OPEN /\ should_attempt_reset(b, t)
              THEN half_open_circuit(b) ELSE b
        rejectOpen == b.state = OPEN /\ ~should_attempt_reset(b, t)
        rejectHalf == b1.state = HALF_OPEN
                      /\ b1.half_open_calls >= half_open_max_calls
        b2 == IF b1.state = HALF_OPEN
              THEN [b1 EXCEPT !.half_open_calls = @ + 1] ELSE b1
    IN  IF rejectOpen THEN [admitted |-> FALSE, probe |-> FALSE, b |-> b]
        ELSE IF rejectHalf THEN [admitted |-> FALSE, probe |-> FALSE, b |-> b1]
        ELSE [admitted |-> TRUE, probe |-> (b1.state = HALF_OPEN), b |-> b2]

\* call(), after func returned normally
call_success(b) ==
    IF b.state = HALF_OPEN THEN close_circuit(b)
    ELSE IF b.state = CLOSED THEN [b EXCEPT !.failure_count = 0]
    ELSE b

\* faulty variant: the circuit opens one failure late
call_failure_late(b, t) ==
    LET b1 == [b EXCEPT !.failure_count = @ + 1]
    IN  IF b1.state = HALF_OPEN THEN open_circuit(b1, t)
        ELSE IF b1.failure_count > failure_threshold THEN open_circuit(b1, t)
        ELSE b1

\* call(), after func raised an Exception
call_failure(b, t) ==
    LET b1 == [b EXCEPT !.failure_count = @ + 1]
    IN  IF b1.state = HALF_OPEN THEN open_circuit(b1, t)
        ELSE IF b1.failure_count >= failure_threshold THEN open_circuit(b1, t)
        ELSE b1

\* __aenter__: whether the block is entered; the breaker is not modified
aenter(b, t) ==
    IF b.state = OPEN /\ ~should_attempt_reset(b, t)
    THEN [admitted |-> FALSE, b |-> b]
    ELSE [admitted |-> TRUE, b |-> b]

\* faulty variant: a failure leaving the block never opens the circuit
aexit_never_opens(b, t, failed) ==
    IF ~failed
    THEN IF b.state = HALF_OPEN THEN close_circuit(b)
         ELSE IF b.state = CLOSED THEN [b EXCEPT !.failure_count = 0]
         ELSE b
    ELSE [b EXCEPT !.failure_count = @ + 1]

\* __aexit__: `failed` is `exc_type is not None`, which holds for an Exception
\* and for the CancelledError of a cancelled task alike
aexit(b, t, failed) ==
    IF ~failed
    THEN IF b.state = HALF_OPEN THEN close_circuit(b)
         ELSE IF b.state = CLOSED THEN [b EXCEPT !.failure_count = 0]
         ELSE b
    ELSE LET b1 == [b EXCEPT !.failure_count = @ + 1]
         IN  IF b1.state = HALF_OPEN THEN open_circuit(b1, t)
             ELSE IF b1.failure_count >= failure_threshold
             THEN open_circuit(b1, t)
             ELSE b1

\* the breaker as __init__ leaves it, no call() in progress
InitBreaker ==
    /\ breaker = NewBreaker
    /\ now = 0
    /\ pc = [c \in Callers |-> "idle"]
    /\ role = [c \in Callers |-> "none"]
    /\ ev = "init"
    /\ consec = 0
    /\ probe_fail_time = NoTime

(***************************************************************************)
(* Data passed between the stages.                                         *)
(*   usage record  [feature_name, usage_count, intensity_score]            *)
(*   article       [article_id, relevance_score, mentions,                 *)
(*                  adoption_category, upsell_related, insight]            *)
(*     relevance_score is in hundredths; `mentions` is the set of feature  *)
(*     names found in title or content; adoption_category is               *)
(*     "adoption" in category; upsell_related is "upsell" in category or   *)
(*     "enterprise" in title or "premium" in content; insight is the       *)
(*     leading sentence of the content.                                    *)
(*   text          [template, features, usage, insight, style]; style is   *)
(*     "generated" (as the templates write it), "padded" (the same with    *)
(*     surrounding blanks) or "lower" (lower-cased and trimmed)            *)
(*   candidate     [recommendation_id, recommendation_type,                *)
(*                  text_description, confidence_score, re_suggestion]     *)
(*   past rec      [recommendation_text, outcome_status,                   *)
(*                  outcome_timestamp]                                     *)
(* Scores in [0,1] are integers in units of 1/2000 (ConfOne = 1.0);        *)
(* sentiment scores in [-1,1] are integers in hundredths.                  *)
(***************************************************************************)
ConfOne == 2000
NoDays == -1          \* days_since_outcome = None
AdoptionType == "Adoption"
UpsellType == "Upsell"

Min(a, b) == IF a <= b THEN a ELSE b
Prefix(s, n) == SubSeq(s, 1, Min(n, Len(s)))

EmptyText ==
    [template |-> "", features |-> <<>>, usage |-> 0, insight |-> "",
     style |-> "lower"]

\* str.lower().strip()
normalize(t) == [t EXCEPT !.style = "lower"]

generate_adoption_text(feature_name, article, current_usage) ==
    IF current_usage = 0
    THEN [template |-> "enable", features |-> <<feature_name>>, usage |-> 0,
          insight |-> article.insight, style |-> "generated"]
    ELSE [template |-> "increase", features |-> <<feature_name>>,
          usage |-> current_usage, insight |-> article.insight,
          style |-> "generated"]

generate_upsell_text(feature_names, article) ==
    [template |-> "upgrade", features |-> feature_names, usage |-> 0,
     insight |-> article.insight, style |-> "generated"]

calculate_recommendation_confidence(knowledge_relevance, usage_count, sentiment_score) ==
    LET knowledge_score == knowledge_relevance * 8
        usage_score == Min(usage_count * 20, 600)
        sentiment_score_contrib == (sentiment_score + 100) * 3
    IN  Min(knowledge_score + usage_score + sentiment_score_contrib, ConfOne)

\* max(relevant_articles, key=relevance_score): the first of the maximal ones
RECURSIVE best_article(_)
best_article(s) ==
    IF Len(s) = 1 THEN s[1]
    ELSE LET m == best_article(Tail(s))
         IN  IF s[1].relevance_score >= m.relevance_score THEN s[1] ELSE m

\* list.sort(key=confidence_score, reverse=True): stable, descending
RECURSIVE insert_desc(_, _)
insert_desc(x, s) ==
    IF s = <<>> THEN <<x>>
    ELSE IF s[1].confidence_score > x.confidence_score
         THEN <<s[1]>> \o insert_desc(x, Tail(s))
         ELSE <<x>> \o s

RECURSIVE sort_by_confidence(_)
sort_by_confidence(s) ==
    IF s = <<>> THEN <<>>
    ELSE insert_desc(s[1], sort_by_confidence(Tail(s)))

NoCandidate ==
    [recommendation_id |-> <<"none", 0>>, recommendation_type |-> "none",
     text_description |-> EmptyText, confidence_score |-> 0,
     re_suggestion |-> NoDays]

IsCandidate(c) == c.recommendation_type # "none"

generate_adoption_recommendations(usage_data, knowledge_articles, sentiment_score) ==
    LET IsLow(u) == u.intensity_score \in {"None", "Low"}
        low_adoption_features == SelectSeq(usage_data, IsLow)
        candidate(i) ==
            LET feature == low_adoption_features[i]
                IsRelevant(a) == feature.feature_name \in a.mentions
                                 \/ a.adoption_category
                relevant_articles == SelectSeq(knowledge_articles, IsRelevant)
            IN  IF relevant_articles = <<>> THEN NoCandidate
                ELSE LET best == best_article(relevant_articles)
                     IN  [recommendation_id |-> <<"adoption", i>>,
                          recommendation_type |-> AdoptionType,
                          text_description |->
                              generate_adoption_text(feature.feature_name, best,
                                                     feature.usage_count),
                          confidence_score |->
                              calculate_recommendation_confidence(
                                  best.relevance_score, feature.usage_count,
                                  sentiment_score),
                          re_suggestion |-> NoDays]
        recommendations ==
            SelectSeq([i \in 1..Len(low_adoption_features) |-> candidate(i)],
                      IsCandidate)
    IN  sort_by_confidence(recommendations)

RECURSIVE sum_usage(_)
sum_usage(s) ==
    IF s = <<>> THEN 0 ELSE s[1].usage_count + sum_usage(Tail(s))

generate_upsell_recommendations(usage_data, knowledge_articles, sentiment_score) ==
    LET IsHigh(u) == u.intensity_score = "High"
        high_adoption_features == SelectSeq(usage_data, IsHigh)
        IsUpsell(a) == a.upsell_related
        upsell_articles == SelectSeq(knowledge_articles, IsUpsell)
        top_features == Prefix(high_adoption_features, 2)
        feature_names == [k \in 1..Len(top_features) |-> top_features[k].feature_name]
        chosen == Prefix(upsell_articles, 3)
    IN  IF high_adoption_features # <<>> /\ upsell_articles # <<>>
        THEN [j \in 1..Len(chosen) |->
                [recommendation_id |-> <<"upsell", j>>,
                 recommendation_type |-> UpsellType,
                 text_description |-> generate_upsell_text(feature_names, chosen[j]),
                 confidence_score |->
                     calculate_recommendation_confidence(
                         chosen[j].relevance_score, sum_usage(top_features),
                         sentiment_score),
                 re_suggestion |-> NoDays]]
        ELSE <<>>

\* outcome_timestamp of a past recommendation: None, or a string;
\* age_days is the number of whole days between the instant it names and now.
\* form "naive" is an ISO string without UTC offset (datetime.isoformat() of a
\* utcnow() value), "aware" an ISO string ending in Z or in an offset, and
\* "invalid" any other string.
NoTimestamp == [form |-> "none", age_days |-> 0]

\* days_since_outcome of the index entry: fromisoformat of an aware string gives
\* an aware datetime, utcnow() minus it raises TypeError, fromisoformat of an
\* invalid string raises ValueError; both are swallowed and leave None
days_since_outcome(outcome_timestamp) ==
    IF outcome_timestamp.form = "naive" THEN outcome_timestamp.age_days
    ELSE NoDays

\* past_by_text[text]: the entry of the last past recommendation with that text
past_lookup(text, past_recommendations) ==
    LET hits == {k \in 1..Len(past_recommendations) :
                    normalize(past_recommendations[k].recommendation_text) = text}
    IN  IF hits = {} THEN 0
        ELSE CHOOSE k \in hits : \A h \in hits : h <= k

\* faulty variant: a decline of exactly 90 days ago still blocks the candidate
past_decision_blocks_day_90(rec, past_recommendations) ==
    LET k == past_lookup(normalize(rec.text_description), past_recommendations)
    IN  IF k = 0 THEN "keep"
        ELSE LET outcome == past_recommendations[k].outcome_status
                 days_since ==
                     days_since_outcome(past_recommendations[k].outcome_timestamp)
             IN  IF outcome = "Declined" /\ days_since # NoDays /\ days_since <= 90
                 THEN "drop"
                 ELSE IF outcome = "Pending" THEN "drop"
                 ELSE IF outcome = "Accepted" /\ days_since # NoDays /\ days_since < 30
                 THEN "drop"
                 ELSE IF outcome = "Declined" /\ days_since # NoDays /\ days_since > 90
                 THEN "resuggest"
                 ELSE "keep"

\* the decision _filter_past_recommendations takes for one candidate:
\* "drop", "keep", or "resuggest" (keep, annotated)
past_decision(rec, past_recommendations) ==
    LET k == past_lookup(normalize(rec.text_description), past_recommendations)
    IN  IF k = 0 THEN "keep"
        ELSE LET outcome == past_recommendations[k].outcome_status
                 days_since ==
                     days_since_outcome(past_recommendations[k].outcome_timestamp)
             IN  IF outcome = "Declined" /\ days_since # NoDays /\ days_since < 90
                 THEN "drop"
                 ELSE IF outcome = "Pending" THEN "drop"
                 ELSE IF outcome = "Accepted" /\ days_since # NoDays /\ days_since < 30
                 THEN "drop"
                 ELSE IF outcome = "Declined" /\ days_since # NoDays /\ days_since >= 90
                 THEN "resuggest"
                 ELSE "keep"

filter_past_recommendations(recommendations, past_recommendations) ==
    LET Kept(r) == past_decision(r, past_recommendations) # "drop"
        annotate(r) ==
            IF past_decision(r, past_recommendations) = "resuggest"
            THEN [r EXCEPT !.re_suggestion =
                    days_since_outcome(
                        past_recommendations[
                            past_lookup(normalize(r.text_description),
                                        past_recommendations)].outcome_timestamp)]
            ELSE r
        kept == SelectSeq(recommendations, Kept)
    IN  [k \in 1..Len(kept) |-> annotate(kept[k])]

\* "unresolved" in factor or "escalation" in factor
factor_blocks_upsell(factor) ==
    factor \in {"unresolved_issues_count_1", "unresolved_issues_count_2",
                "unresolved_issues_count_3", "recent_escalation"}

\* faulty variant: a score of exactly -0.2 already blocks upsell
apply_sentiment_filter_blocks_at_threshold(recommendations, sentiment_score, sentiment_factors) ==
    LET Allowed(r) ==
            IF r.recommendation_type = UpsellType
            THEN ~(sentiment_score <= -20)
                 /\ ~(\E k \in 1..Len(sentiment_factors) :
                        factor_blocks_upsell(sentiment_factors[k]))
            ELSE TRUE
    IN  SelectSeq(recommendations, Allowed)

apply_sentiment_filter(recommendations, sentiment_score, sentiment_factors) ==
    LET Allowed(r) ==
            IF r.recommendation_type = UpsellType
            THEN ~(sentiment_score < -20)
                 /\ ~(\E k \in 1..Len(sentiment_factors) :
                        factor_blocks_upsell(sentiment_factors[k]))
            ELSE TRUE
    IN  SelectSeq(recommendations, Allowed)

\* faulty variant: the count caps are applied before the history filter and the gate
reasoning_run_caps_first(usage_data, knowledge_articles, sentiment_score, sentiment_factors, past_recs) ==
    LET adoption_candidates ==
            generate_adoption_recommendations(usage_data, knowledge_articles,
                                              sentiment_score)
        upsell_candidates ==
            generate_upsell_recommendations(usage_data, knowledge_articles,
                                            sentiment_score)
    IN  [adoption_recommendations |->
            apply_sentiment_filter(
                filter_past_recommendations(Prefix(adoption_candidates, 5), past_recs),
                sentiment_score, sentiment_factors),
         upsell_recommendations |->
            apply_sentiment_filter(
                filter_past_recommendations(Prefix(upsell_candidates, 3), past_recs),
                sentiment_score, sentiment_factors),
         generated_adoption |-> adoption_candidates,
         generated_upsell |-> upsell_candidates]

\* ReasoningAgent.run; generated_* keep the lists of Phases 2 and 3 for reference
reasoning_run(usage_data, knowledge_articles, sentiment_score, sentiment_factors, past_recs) ==
    LET adoption_candidates ==
            generate_adoption_recommendations(usage_data, knowledge_articles,
                                              sentiment_score)
        upsell_candidates ==
            generate_upsell_recommendations(usage_data, knowledge_articles,
                                            sentiment_score)
        adoption_after_history ==
            filter_past_recommendations(adoption_candidates, past_recs)
        upsell_after_history ==
            filter_past_recommendations(upsell_candidates, past_recs)
        filtered_adoption ==
            apply_sentiment_filter(adoption_after_history, sentiment_score,
                                   sentiment_factors)
        filtered_upsell ==
            apply_sentiment_filter(upsell_after_history, sentiment_score,
                                   sentiment_factors)
    IN  [adoption_recommendations |-> Prefix(filtered_adoption, 5),
         upsell_recommendations |-> Prefix(filtered_upsell, 3),
         generated_adoption |-> adoption_candidates,
         generated_upsell |-> upsell_candidates]


(***************************************************************************)
(* FabricIQClient and FoundryIQClient with ENV=local: the mock data.       *)
(* An article's `words` are the query terms found in its title, content or *)
(* tags (`term in title.lower() or term in content.lower() or term in      *)
(* tags`), out of the terms the queries of RetrievalAgent are made of.     *)
(***************************************************************************)
MockUsage ==
    << [feature_name |-> "Dashboard Analytics", usage_count |-> 142,
        intensity_score |-> "High"],
       [feature_name |-> "API Integration", usage_count |-> 87,
        intensity_score |-> "Medium"],
       [feature_name |-> "Data Export", usage_count |-> 12,
        intensity_score |-> "Low"],
       [feature_name |-> "Advanced Reporting", usage_count |-> 0,
        intensity_score |-> "None"],
       [feature_name |-> "Custom Workflows", usage_count |-> 34,
        intensity_score |-> "Medium"] >>

kb_article_1234 ==
    [article_id |-> "kb_article_1234", relevance_score |-> 92,
     mentions |-> {"Advanced Reporting"}, adoption_category |-> FALSE,
     upsell_related |-> FALSE, insight |-> "insight_1234",
     words |-> {"feature", "adoption", "best", "practices", "advanced",
                "reporting", "customers", "analytics", "custom"}]

kb_article_5678 ==
    [article_id |-> "kb_article_5678", relevance_score |-> 87,
     mentions |-> {"API Integration"}, adoption_category |-> FALSE,
     upsell_related |-> FALSE, insight |-> "insight_5678",
     words |-> {"troubleshooting", "for", "api", "integration", "product"}]

kb_article_9012 ==
    [article_id |-> "kb_article_9012", relevance_score |-> 79,
     mentions |-> {"Custom Workflows"}, adoption_category |-> FALSE,
     upsell_related |-> FALSE, insight |-> "insight_9012",
     words |-> {"for", "custom", "workflows"}]

kb_article_3456 ==
    [article_id |-> "kb_article_3456", relevance_score |-> 85,
     mentions |-> {}, adoption_category |-> FALSE,
     upsell_related |-> TRUE, insight |-> "insight_3456",
     words |-> {"feature", "best", "for", "advanced", "upsell", "customers",
                "api", "integration", "custom"}]

kb_article_7890 ==
    [article_id |-> "kb_article_7890", relevance_score |-> 73,
     mentions |-> {"Data Export"}, adoption_category |-> FALSE,
     upsell_related |-> FALSE, insight |-> "insight_7890",
     words |-> {"feature", "for", "data", "export"}]

mock_articles ==
    <<kb_article_1234, kb_article_5678, kb_article_9012, kb_article_3456,
      kb_article_7890>>

\* list.sort(key=relevance_score, reverse=True): stable, descending
RECURSIVE insert_by_relevance(_, _)
insert_by_relevance(x, s) ==
    IF s = <<>> THEN <<x>>
    ELSE IF s[1].relevance_score > x.relevance_score
         THEN <<s[1]>> \o insert_by_relevance(x, Tail(s))
         ELSE <<x>> \o s

RECURSIVE sort_by_relevance(_)
sort_by_relevance(s) ==
    IF s = <<>> THEN <<>>
    ELSE insert_by_relevance(s[1], sort_by_relevance(Tail(s)))

\* FoundryIQClient._get_mock_knowledge_articles; a query is the set of its terms
get_mock_knowledge_articles(query, top_k) ==
    LET Matches(a) == a.words \cap query # {}
        matching == SelectSeq(mock_articles, Matches)
        filtered == IF matching = <<>> THEN mock_articles ELSE matching
    IN  Prefix(sort_by_relevance(filtered), top_k)

(***************************************************************************)
(* RetrievalAgent                                                          *)
(***************************************************************************)
\* query="feature adoption best practices troubleshooting"
InitialQuery == {"feature", "adoption", "best", "practices", "troubleshooting"}

\* the terms of a feature name, lower-cased
feature_words(feature_name) ==
    CASE feature_name = "Dashboard Analytics" -> {"dashboard", "analytics"}
      [] feature_name = "API Integration" -> {"api", "integration"}
      [] feature_name = "Data Export" -> {"data", "export"}
      [] feature_name = "Advanced Reporting" -> {"advanced", "reporting"}
      [] feature_name = "Custom Workflows" -> {"custom", "workflows"}
      [] OTHER -> {feature_name}

build_search_query(usage_data) ==
    LET IsLow(u) == u.intensity_score \in {"None", "Low"}
        IsHigh(u) == u.intensity_score = "High"
        low_adoption_features == Prefix(SelectSeq(usage_data, IsLow), 3)
        high_adoption_features == Prefix(SelectSeq(usage_data, IsHigh), 2)
        names(s) == UNION {feature_words(s[k].feature_name) : k \in 1..Len(s)}
        low_part == IF low_adoption_features # <<>>
                    THEN {"adoption", "best", "practices", "for"}
                         \cup names(low_adoption_features)
                    ELSE {}
        high_part == IF high_adoption_features # <<>>
                     THEN {"upsell", "opportunities", "for", "customers", "using"}
                          \cup names(high_adoption_features)
                     ELSE {}
    IN  IF low_part \cup high_part = {}
        THEN {"product", "adoption", "recommendations"}
        ELSE low_part \cup high_part

RECURSIVE sum_relevance(_)
sum_relevance(s) ==
    IF s = <<>> THEN 0 ELSE s[1].relevance_score + sum_relevance(Tail(s))

\* RetrievalAgent._calculate_confidence, in units of 1/ConfOne
retrieval_calculate_confidence(usage_data, knowledge_articles) ==
    LET usage_score == Min(Len(usage_data) * 200, 800)
        knowledge_score ==
            IF knowledge_articles # <<>>
            THEN (sum_relevance(knowledge_articles) * 8) \div Len(knowledge_articles)
            ELSE 0
        has_high == \E k \in 1..Len(usage_data) :
                        usage_data[k].intensity_score = "High"
        has_low == \E k \in 1..Len(usage_data) :
                        usage_data[k].intensity_score \in {"Low", "None"}
        pattern_score == IF usage_data # <<>>
                         THEN (IF has_high /\ has_low THEN 400 ELSE 200)
                         ELSE 0
    IN  IF usage_data = <<>> /\ knowledge_articles = <<>> THEN 0
        ELSE Min(usage_score + knowledge_score + pattern_score, ConfOne)

deduplicate_articles(articles) ==
    LET First(k) == \A j \in 1..(k - 1) :
                        articles[j].article_id # articles[k].article_id
        kept == {k \in 1..Len(articles) : First(k)}
        RECURSIVE unique(_)
        unique(k) == IF k > Len(articles) THEN <<>>
                     ELSE IF k \in kept THEN <<articles[k]>> \o unique(k + 1)
                     ELSE unique(k + 1)
    IN  sort_by_relevance(unique(1))

(***************************************************************************)
(* SentimentAgent.  An interaction is                                      *)
(*   [sentiment_score (hundredths), resolution_status, age_days]           *)
(* where age_days is the age of its timestamp at the time of the run.      *)
(***************************************************************************)
\* SentimentAgent._get_interaction_history with ENV=local
MockInteractions ==
    << [sentiment_score |-> -30, resolution_status |-> "Resolved", age_days |-> 5],
       [sentiment_score |-> 70, resolution_status |-> "Resolved", age_days |-> 15],
       [sentiment_score |-> 20, resolution_status |-> "Resolved", age_days |-> 30] >>

\* sorted(interactions, key=timestamp, reverse=True): most recent first, stable
RECURSIVE insert_by_age(_, _)
insert_by_age(x, s) ==
    IF s = <<>> THEN <<x>>
    ELSE IF s[1].age_days < x.age_days
         THEN <<s[1]>> \o insert_by_age(x, Tail(s))
         ELSE <<x>> \o s

RECURSIVE sort_recent_first(_)
sort_recent_first(s) ==
    IF s = <<>> THEN <<>>
    ELSE insert_by_age(s[1], sort_recent_first(Tail(s)))

\* 0.9 ** i, in thousandths
RECURSIVE decay_weight(_)
decay_weight(i) == IF i = 0 THEN 1000 ELSE (decay_weight(i - 1) * 9) \div 10

RECURSIVE sum_sentiment(_)
sum_sentiment(s) ==
    IF s = <<>> THEN 0 ELSE s[1].sentiment_score + sum_sentiment(Tail(s))

Max(a, b) == IF a >= b THEN a ELSE b

calculate_sentiment_score(interactions) ==
    LET sorted_interactions == sort_recent_first(interactions)
        n == Len(sorted_interactions)
        RECURSIVE weighted_sum(_)
        weighted_sum(i) ==
            IF i > n THEN 0
            ELSE sorted_interactions[i].sentiment_score * decay_weight(i - 1)
                 + weighted_sum(i + 1)
        RECURSIVE total_weight(_)
        total_weight(i) ==
            IF i > n THEN 0 ELSE decay_weight(i - 1) + total_weight(i + 1)
    IN  IF interactions = <<>> THEN 0
        ELSE Max(-100, Min(100, weighted_sum(1) \div total_weight(1)))

\* f"unresolved_issues_count_{n}"
unresolved_factor(n) ==
    CASE n = 1 -> "unresolved_issues_count_1"
      [] n = 2 -> "unresolved_issues_count_2"
      [] OTHER -> "unresolved_issues_count_3"

identify_sentiment_factors(interactions) ==
    LET n == Len(interactions)
        Unresolved(i) == i.resolution_status # "Resolved"
        Escalated(i) == i.resolution_status = "Escalated"
        recent_unresolved == SelectSeq(interactions, Unresolved)
        recent_escalations == SelectSeq(interactions, Escalated)
        \* sorted by timestamp ascending: oldest first
        oldest_first == [k \in 1..n |-> sort_recent_first(interactions)[n + 1 - k]]
        recent_sum == sum_sentiment(SubSeq(oldest_first, Max(1, n - 2), n))
        older_sum == sum_sentiment(Prefix(oldest_first, 3))
        total == sum_sentiment(interactions)
        f1 == IF recent_unresolved # <<>>
              THEN <<unresolved_factor(Len(recent_unresolved))>> ELSE <<>>
        f2 == IF recent_escalations # <<>> THEN <<"recent_escalation">> ELSE <<>>
        f3 == IF n >= 3 /\ recent_sum > older_sum + 60
              THEN <<"improving_sentiment">>
              ELSE IF n >= 3 /\ recent_sum < older_sum - 60
              THEN <<"declining_sentiment">>
              ELSE <<>>
        f4 == IF n > 10 THEN <<"high_interaction_frequency">> ELSE <<>>
        f5 == IF total > 50 * n THEN <<"positive_support_history">>
              ELSE IF total < -30 * n THEN <<"negative_support_history">>
              ELSE <<>>
    IN  f1 \o f2 \o f3 \o f4 \o f5

\* one entry (its status) per recent unresolved or escalated interaction
extract_recent_issues(interactions) ==
    LET Issue(i) == i.age_days < 30
                    /\ i.resolution_status \in {"Pending", "Escalated"}
        issues == SelectSeq(interactions, Issue)
    IN  [k \in 1..Len(issues) |-> issues[k].resolution_status]

\* SentimentAgent._calculate_confidence, in units of 1/ConfOne
sentiment_calculate_confidence(interactions) ==
    LET n == Len(interactions)
        Recent(i) == i.age_days < 30
        sample_size_score == Min(n * 100, 1000)
        recency_score == Min(Len(SelectSeq(interactions, Recent)) * 200, 600)
        total == sum_sentiment(interactions)
        RECURSIVE squares(_)
        \* sum of (n*s - total)^2 = n^2 * sum of (s - avg)^2
        squares(k) ==
            IF k > n THEN 0
            ELSE (n * interactions[k].sentiment_score - total)
                 * (n * interactions[k].sentiment_score - total) + squares(k + 1)
        \* variance in units of 1/10000
        variance == squares(1) \div (n * n * n)
        consistency_score ==
            IF n > 1 THEN Max(0, 400 - variance \div 25) ELSE 200
    IN  IF interactions = <<>> THEN 0
        ELSE Min(sample_size_score + recency_score + consistency_score, ConfOne)

build_neutral_result ==
    [sentiment_score |-> 0, sentiment_factors |-> <<"no_interaction_history">>,
     interaction_count |-> 0, recent_issues |-> <<>>, confidence |-> 0]

\* SentimentAgent.run after the interaction history has arrived
sentiment_run(interactions) ==
    IF interactions = <<>> THEN build_neutral_result
    ELSE [sentiment_score |-> calculate_sentiment_score(interactions),
          sentiment_factors |-> identify_sentiment_factors(interactions),
          interaction_count |-> Len(interactions),
          recent_issues |-> extract_recent_issues(interactions),
          confidence |-> sentiment_calculate_confidence(interactions)]

(***************************************************************************)
(* ValidationAgent.  The historical-recommendation query of                *)
(* _check_duplicates and the content-safety service are collaborators:     *)
(* `duplicates` is the set of candidate ids the former reports as          *)
(* duplicates, `unsafe_texts` the set of texts for which the latter gives  *)
(* no result with is_safe true.                                            *)
(***************************************************************************)
InSeq(x, s) == \E k \in 1..Len(s) : s[k] = x

\* what one analyze_text call of the content-safety client does
AnalysisOutcomes == {"clean", "flagged", "error"}

\* faulty variant: a failed analyze_text call lets the text pass
analyze_text_production_fails_open(outcome) ==
    IF outcome = "flagged"
    THEN [is_safe |-> FALSE, blocked_categories |-> {"Hate"}]
    ELSE [is_safe |-> TRUE, blocked_categories |-> {}]

\* ContentSafetyService._analyze_text_production: `except Exception` returns a
\* result that blocks the text
analyze_text_production(outcome) ==
    IF outcome = "error"
    THEN [is_safe |-> FALSE, blocked_categories |-> {"API_ERROR"}]
    ELSE IF outcome = "flagged"
    THEN [is_safe |-> FALSE, blocked_categories |-> {"Hate"}]
    ELSE [is_safe |-> TRUE, blocked_categories |-> {}]

\* ContentSafetyService.validate_batch on a non-empty list of texts: one result
\* per text; `report` names the texts whose call is flagged and those whose
\* call fails
validate_batch(texts, report) ==
    [t \in texts |->
        analyze_text_production(IF t \in report.errored THEN "error"
                                ELSE IF t \in report.flagged THEN "flagged"
                                ELSE "clean")]

\* the texts for which `result and result.is_safe` is false
texts_not_safe(texts, report) ==
    {t \in texts : ~validate_batch(texts, report)[t].is_safe}

check_duplicates(candidates, duplicates) ==
    LET Novel(c) == c.recommendation_id \notin duplicates
    IN  SelectSeq(candidates, Novel)

validate_content_safety(candidates, unsafe_texts) ==
    LET Safe(c) == c.text_description \notin unsafe_texts
    IN  SelectSeq(candidates, Safe)

\* faulty variant: the confidence threshold is not applied
filter_low_confidence_keeps_all(candidates, min_confidence) ==
    candidates

filter_low_confidence(candidates, min_confidence) ==
    LET Confident(c) == c.confidence_score >= min_confidence
    IN  SelectSeq(candidates, Confident)

determine_block_reason(recommendation, all_candidates, after_dedup, after_safety) ==
    IF InSeq(recommendation, all_candidates) /\ ~InSeq(recommendation, after_dedup)
    THEN "duplicate"
    ELSE IF InSeq(recommendation, after_dedup) /\ ~InSeq(recommendation, after_safety)
    THEN "content_safety"
    ELSE IF InSeq(recommendation, after_safety)
    THEN "low_confidence"
    ELSE "unknown"

build_empty_result ==
    [validated_recommendations |-> <<>>,
     blocked_recommendations |-> <<>>,
     validation_summary |->
        [total_candidates |-> 0, duplicate_filtered |-> 0,
         content_safety_blocked |-> 0, low_confidence_filtered |-> 0,
         validated_count |-> 0]]

\* faulty variant: content safety is applied before the duplicate check
validation_run_safety_first(reasoning_result, duplicates, unsafe_texts) ==
    LET all_candidates == reasoning_result.adoption_recommendations
                          \o reasoning_result.upsell_recommendations
        candidates_after_dedup == validate_content_safety(all_candidates, unsafe_texts)
        candidates_after_safety ==
            check_duplicates(candidates_after_dedup, duplicates)
        validated_recommendations ==
            filter_low_confidence(candidates_after_safety, ConfOne \div 2)
        Blocked(c) == ~InSeq(c, validated_recommendations)
        blocked_recommendations == SelectSeq(all_candidates, Blocked)
    IN  IF all_candidates = <<>> THEN build_empty_result
        ELSE [validated_recommendations |-> validated_recommendations,
              blocked_recommendations |->
                [k \in 1..Len(blocked_recommendations) |->
                    [recommendation_id |->
                        blocked_recommendations[k].recommendation_id,
                     block_reason |->
                        determine_block_reason(blocked_recommendations[k],
                            all_candidates, candidates_after_dedup,
                            candidates_after_safety)]],
              validation_summary |->
                [total_candidates |-> Len(all_candidates),
                 duplicate_filtered |->
                    Len(all_candidates) - Len(candidates_after_dedup),
                 content_safety_blocked |->
                    Len(candidates_after_dedup) - Len(candidates_after_safety),
                 low_confidence_filtered |->
                    Len(candidates_after_safety) - Len(validated_recommendations),
                 validated_count |-> Len(validated_recommendations)]]

\* ValidationAgent.run when neither collaborator raises
validation_run(reasoning_result, duplicates, unsafe_texts) ==
    LET all_candidates == reasoning_result.adoption_recommendations
                          \o reasoning_result.upsell_recommendations
        candidates_after_dedup == check_duplicates(all_candidates, duplicates)
        candidates_after_safety ==
            validate_content_safety(candidates_after_dedup, unsafe_texts)
        validated_recommendations ==
            filter_low_confidence(candidates_after_safety, ConfOne \div 2)
        Blocked(c) == ~InSeq(c, validated_recommendations)
        blocked_recommendations == SelectSeq(all_candidates, Blocked)
    IN  IF all_candidates = <<>> THEN build_empty_result
        ELSE [validated_recommendations |-> validated_recommendations,
              blocked_recommendations |->
                [k \in 1..Len(blocked_recommendations) |->
                    [recommendation_id |->
                        blocked_recommendations[k].recommendation_id,
                     block_reason |->
                        determine_block_reason(blocked_recommendations[k],
                            all_candidates, candidates_after_dedup,
                            candidates_after_safety)]],
              validation_summary |->
                [total_candidates |-> Len(all_candidates),
                 duplicate_filtered |->
                    Len(all_candidates) - Len(candidates_after_dedup),
                 content_safety_blocked |->
                    Len(candidates_after_dedup) - Len(candidates_after_safety),
                 low_confidence_filtered |->
                    Len(candidates_after_safety) - Len(validated_recommendations),
                 validated_count |-> Len(validated_recommendations)]]

(***************************************************************************)
(* RecommendationOrchestrator                                              *)
(***************************************************************************)
Stages == {"Retrieval", "Sentiment", "Reasoning", "Validation"}

\* AgentContribution(...): the pydantic model accepts confidence_score in [0, 1]
\* and execution_time_ms > 0, and raises ValidationError otherwise
contribution_accepted(c) ==
    /\ c.confidence_score >= 0
    /\ c.confidence_score <= ConfOne
    /\ c.execution_time_ms > 0

\* the four records _log_agent_contributions constructs, in its order
log_agent_contributions(retrieval_result, sentiment_result, reasoning_result, validation_result) ==
    << [agent_type |-> "Retrieval", recommendation_id |-> "cycle",
        confidence_score |-> retrieval_result.confidence,
        execution_time_ms |-> retrieval_result.execution_time_ms],
       [agent_type |-> "Sentiment", recommendation_id |-> "cycle",
        confidence_score |-> sentiment_result.result.confidence,
        execution_time_ms |-> sentiment_result.execution_time_ms],
       [agent_type |-> "Reasoning", recommendation_id |-> "cycle",
        confidence_score |-> 0,
        execution_time_ms |-> reasoning_result.execution_time_ms],
       [agent_type |-> "Validation", recommendation_id |-> "cycle",
        confidence_score |-> ConfOne,
        execution_time_ms |-> validation_result.execution_time_ms] >>

NoResult ==
    [kind |-> "none", adoption_recommendations |-> <<>>,
     upsell_recommendations |-> <<>>, agent_contributions |-> <<>>,
     orchestration_metadata |->
        [keys |-> {}, success |-> "absent", graceful_degradation |-> "absent",
         error |-> "absent", latency_target_met |-> "absent"],
     generation_time_ms |-> 0]

\* faulty variant: the degraded result reports success
graceful_degradation_reports_success(error_message, generation_time_ms) ==
    [kind |-> "degraded", adoption_recommendations |-> <<>>,
     upsell_recommendations |-> <<>>, agent_contributions |-> <<>>,
     orchestration_metadata |->
        [keys |-> {"customer_id", "generation_time_ms", "success", "error",
                   "graceful_degradation"},
         success |-> "true", graceful_degradation |-> "true",
         error |-> error_message, latency_target_met |-> "absent"],
     generation_time_ms |-> generation_time_ms]

\* _graceful_degradation: the result returned from the except branch
graceful_degradation(error_message, generation_time_ms) ==
    [kind |-> "degraded", adoption_recommendations |-> <<>>,
     upsell_recommendations |-> <<>>, agent_contributions |-> <<>>,
     orchestration_metadata |->
        [keys |-> {"customer_id", "generation_time_ms", "success", "error",
                   "graceful_degradation"},
         success |-> "false", graceful_degradation |-> "true",
         error |-> error_message, latency_target_met |-> "absent"],
     generation_time_ms |-> generation_time_ms]

\* faulty variant: a cycle of exactly 2000 ms misses the latency target
build_result_strict_budget(validation_result, agent_contributions, generation_time_ms) ==
    LET validated == validation_result.validated_recommendations
        IsAdoption(r) == r.recommendation_type = AdoptionType
        IsUpsell(r) == r.recommendation_type = UpsellType
    IN  [kind |-> "normal",
         adoption_recommendations |-> SelectSeq(validated, IsAdoption),
         upsell_recommendations |-> SelectSeq(validated, IsUpsell),
         agent_contributions |-> agent_contributions,
         orchestration_metadata |->
            [keys |-> {"customer_id", "recommendation_id", "generation_time_ms",
                       "phase1_parallel_time_ms", "phase2_reasoning_time_ms",
                       "phase3_validation_time_ms", "validation_summary",
                       "latency_target_met"},
             success |-> "absent", graceful_degradation |-> "absent",
             error |-> "absent",
             latency_target_met |->
                IF generation_time_ms < 2000 THEN "true" ELSE "false"],
         generation_time_ms |-> generation_time_ms]

\* the result generate_recommendations builds after the four stages
build_result(validation_result, agent_contributions, generation_time_ms) ==
    LET validated == validation_result.validated_recommendations
        IsAdoption(r) == r.recommendation_type = AdoptionType
        IsUpsell(r) == r.recommendation_type = UpsellType
    IN  [kind |-> "normal",
         adoption_recommendations |-> SelectSeq(validated, IsAdoption),
         upsell_recommendations |-> SelectSeq(validated, IsUpsell),
         agent_contributions |-> agent_contributions,
         orchestration_metadata |->
            [keys |-> {"customer_id", "recommendation_id", "generation_time_ms",
                       "phase1_parallel_time_ms", "phase2_reasoning_time_ms",
                       "phase3_validation_time_ms", "validation_summary",
                       "latency_target_met"},
             success |-> "absent", graceful_degradation |-> "absent",
             error |-> "absent",
             latency_target_met |->
                IF generation_time_ms <= 2000 THEN "true" ELSE "false"],
         generation_time_ms |-> generation_time_ms]

(***************************************************************************)
(* State of one generation cycle                                           *)
(***************************************************************************)
\* recommendation_text = None in a past recommendation
NullText == [EmptyText EXCEPT !.style = "null"]

\* _filter_past_recommendations calls .lower() on the recommendation_text of
\* every past recommendation: a None there raises AttributeError
reasoning_raises(past_recommendations) ==
    \E k \in 1..Len(past_recommendations) :
        past_recommendations[k].recommendation_text = NullText

NoRetrieval ==
    [pc |-> "none", u_pc |-> "none", k_pc |-> "none", u_how |-> "none",
     source_invoked |-> FALSE, usage_data |-> <<>>, knowledge_articles |-> <<>>,
     refined_query |-> {}, all_articles |-> <<>>, confidence |-> 0,
     execution_time_ms |-> 0, error |-> "none"]

NoSentiment ==
    [pc |-> "none", result |-> build_neutral_result, execution_time_ms |-> 0]

NoReasoning ==
    [pc |-> "none", past_recs |-> <<>>,
     result |-> reasoning_run(<<>>, <<>>, 0, <<>>, <<>>),
     execution_time_ms |-> 0]

NoValidation ==
    [pc |-> "none", duplicates |-> {}, unsafe_texts |-> {}, error_texts |-> {},
     result |-> build_empty_result, execution_time_ms |-> 0]

NoHistory ==
    [days |-> 0, p1_first |-> "none", contributions |-> "none", error |-> "none"]

\* no generate_recommendations call has been made
InitOrchIdle ==
    /\ env = "local"
    /\ o_pc = "idle"
    /\ retr = NoRetrieval
    /\ sent = NoSentiment
    /\ reas = NoReasoning
    /\ val = NoValidation
    /\ result = NoResult
    /\ hist = NoHistory

(***************************************************************************)
(* SpecReason: ReasoningAgent.run applied to bounded inputs.  The usage    *)
(* records and articles are put together one at a time; RunReasoning then  *)
(* applies run() with a sentiment result and a history.                    *)
(***************************************************************************)
UsageKinds ==
    { [feature_name |-> "DataExport", usage_count |-> 12, intensity_score |-> "Low"],
      [feature_name |-> "AdvancedReporting", usage_count |-> 0, intensity_score |-> "None"],
      [feature_name |-> "Dashboard", usage_count |-> 142, intensity_score |-> "High"] }

ArticleKinds ==
    { [article_id |-> "kb_adoption", relevance_score |-> 92,
       mentions |-> {"AdvancedReporting"}, adoption_category |-> TRUE,
       upsell_related |-> FALSE, insight |-> "insight_adoption"],
      [article_id |-> "kb_upsell", relevance_score |-> 85,
       mentions |-> {}, adoption_category |-> FALSE,
       upsell_related |-> TRUE, insight |-> "insight_upsell"] }

SentimentKinds ==
    { [sentiment_score |-> 80, sentiment_factors |-> <<"positive_support_history">>],
      [sentiment_score |-> -50, sentiment_factors |-> <<"negative_support_history">>] }

DataExportText ==
    [template |-> "increase", features |-> <<"DataExport">>, usage |-> 12,
     insight |-> "insight_adoption", style |-> "lower"]

PastKinds ==
    { <<>>,
      << [recommendation_text |-> DataExportText, outcome_status |-> "Pending",
          outcome_timestamp |-> NoTimestamp] >> }

NoOutput ==
    [ran |-> FALSE, sentiment_score |-> 0, sentiment_factors |-> <<>>,
     past_recs |-> <<>>, result |-> reasoning_run(<<>>, <<>>, 0, <<>>, <<>>)]

NoFilterInput == [recommendations |-> <<>>, past_recommendations |-> <<>>]
NoFilterOutput == [ran |-> FALSE, result |-> <<>>]

NoGateInput ==
    [recommendations |-> <<>>, interactions |-> <<>>,
     sentiment |-> build_neutral_result]
NoGateOutput == [ran |-> FALSE, result |-> <<>>]

\* the documents of the recommendations container, by recommendation_id
RecommendationIds == {"rec_a", "rec_b"}
NullAgent == "null"
NoDocument ==
    [present |-> FALSE, outcome_status |-> "none",
     delivered_by_agent_id |-> NullAgent, outcome_timestamp |-> NoTimestamp,
     previous_status |-> "none"]

InitStoreIdle ==
    /\ store = [id \in RecommendationIds |-> NoDocument]
    /\ s_ret = "none"

NoServiceResult ==
    [adoption_recommendations |-> <<>>, upsell_recommendations |-> <<>>,
     cached |-> "none", graceful_degradation |-> FALSE]

NoServiceCall ==
    [force_refresh |-> FALSE, cache |-> "none", history |-> "none",
     orchestrator_runs |-> 0, fresh_pending |-> <<>>, pending_before |-> {},
     past |-> <<>>, generated |-> <<>>, filtered |-> <<>>]

InitServiceIdle ==
    svc = [docs |-> <<>>, ret |-> NoServiceResult, call |-> NoServiceCall,
           cycles |-> 0]

InitGateIdle ==
    /\ g_in = NoGateInput
    /\ g_out = NoGateOutput

InitFilterIdle ==
    /\ f_in = NoFilterInput
    /\ f_out = NoFilterOutput

InitReasonIdle ==
    /\ r_usage = <<>>
    /\ r_articles = <<>>
    /\ r_out = NoOutput
    /\ InitFilterIdle
    /\ InitGateIdle
    /\ InitStoreIdle
    /\ InitServiceIdle

InitReason ==
    /\ InitBreaker
    /\ InitReasonIdle
    /\ InitOrchIdle

AddUsage(u) ==
    /\ ~r_out.ran
    /\ Len(r_usage) < MaxUsage
    /\ r_usage' = Append(r_usage, u)
    /\ UNCHANGED <<r_articles, r_out>>
    /\ UNCHANGED <<filterVars, gateVars, storeVars, svcVars>>
    /\ UNCHANGED cbVars
    /\ UNCHANGED orchVars

AddArticle(a) ==
    /\ ~r_out.ran
    /\ Len(r_articles) < MaxArticles
    /\ r_articles' = Append(r_articles, a)
    /\ UNCHANGED <<r_usage, r_out>>
    /\ UNCHANGED <<filterVars, gateVars, storeVars, svcVars>>
    /\ UNCHANGED cbVars
    /\ UNCHANGED orchVars

RunReasoning(sentiment, past) ==
    /\ ~r_out.ran
    /\ r_out' = [ran |-> TRUE,
                 sentiment_score |-> sentiment.sentiment_score,
                 sentiment_factors |-> sentiment.sentiment_factors,
                 past_recs |-> past,
                 result |-> reasoning_run(r_usage, r_articles,
                                          sentiment.sentiment_score,
                                          sentiment.sentiment_factors, past)]
    /\ UNCHANGED <<r_usage, r_articles>>
    /\ UNCHANGED <<filterVars, gateVars, storeVars, svcVars>>
    /\ UNCHANGED cbVars
    /\ UNCHANGED orchVars

NextReason ==
    \/ \E u \in UsageKinds : AddUsage(u)
    \/ \E a \in ArticleKinds : AddArticle(a)
    \/ \E sentiment \in SentimentKinds, past \in PastKinds :
            RunReasoning(sentiment, past)

SpecReason == InitReason /\ [][NextReason]_vars

\* ReasoningAgent.run on articles in any order of relevance: two upsell
\* articles of different relevance next to the adoption article
OrderUsageKinds == {u \in UsageKinds : u.intensity_score \in {"High", "Low"}}

OrderArticleKinds ==
    ArticleKinds \cup
    { [article_id |-> "kb_enterprise", relevance_score |-> 95,
       mentions |-> {}, adoption_category |-> FALSE,
       upsell_related |-> TRUE, insight |-> "insight_enterprise"] }

NextReasonOrder ==
    \/ \E u \in OrderUsageKinds : AddUsage(u)
    \/ \E a \in OrderArticleKinds : AddArticle(a)
    \/ \E sentiment \in SentimentKinds, past \in PastKinds :
            RunReasoning(sentiment, past)

SpecReasonOrder == InitReason /\ [][NextReasonOrder]_vars

(***************************************************************************)
(* SpecFilter: _filter_past_recommendations applied to candidates as the   *)
(* generators build them and to a history of past recommendations.  Past   *)
(* texts come as generated, with surrounding blanks, or lower-cased;       *)
(* outcome timestamps come absent, as the service writes them (naive ISO   *)
(* strings), with a UTC offset, or unparsable.                             *)
(***************************************************************************)
FilterCandidateA ==
    [recommendation_id |-> <<"adoption", 1>>, recommendation_type |-> AdoptionType,
     text_description |-> generate_adoption_text("Data Export", kb_article_7890, 12),
     confidence_score |-> 1300, re_suggestion |-> NoDays]

FilterCandidateB ==
    [recommendation_id |-> <<"upsell", 1>>, recommendation_type |-> UpsellType,
     text_description |-> generate_upsell_text(<<"Dashboard Analytics">>, kb_article_3456),
     confidence_score |-> 1500, re_suggestion |-> NoDays]

FilterCandidateInputs ==
    { <<FilterCandidateA>>, <<FilterCandidateA, FilterCandidateB>>,
      <<FilterCandidateB, FilterCandidateA>> }

TextStyles == {"generated", "padded", "lower"}
OutcomeStatuses == {"Pending", "Delivered", "Accepted", "Declined", "Excluded"}
OutcomeAges == {29, 30, 45, 89, 90, 120}

OutcomeTimestamps ==
    {NoTimestamp}
    \cup {[form |-> "naive", age_days |-> a] : a \in OutcomeAges}
    \cup {[form |-> "aware", age_days |-> a] : a \in {45, 120}}
    \cup {[form |-> "invalid", age_days |-> 0]}

\* past recommendations whose text is that of candidate A up to case and blanks
PastOfA ==
    { [recommendation_text |-> [FilterCandidateA.text_description EXCEPT !.style = st],
       outcome_status |-> o, outcome_timestamp |-> ts] :
        st \in TextStyles, o \in OutcomeStatuses, ts \in OutcomeTimestamps }

\* past recommendations whose text is that of candidate B
PastOfB ==
    { [recommendation_text |-> FilterCandidateB.text_description,
       outcome_status |-> o, outcome_timestamp |-> ts] :
        o \in OutcomeStatuses,
        ts \in {NoTimestamp, [form |-> "naive", age_days |-> 45]} }

\* past recommendations with the text of candidate A as generated, of which a
\* history may hold two
PastOfASameText ==
    { p \in PastOfA :
        /\ p.recommendation_text.style = "generated"
        /\ p.outcome_timestamp \in {NoTimestamp,
                                     [form |-> "naive", age_days |-> 45],
                                     [form |-> "naive", age_days |-> 120]} }

FilterPastInputs ==
    {<<>>} \cup {<<p>> : p \in PastOfA \cup PastOfB}
    \cup {<<p, q>> : p \in PastOfA, q \in PastOfB}
    \cup {<<p, q>> : p \in PastOfASameText, q \in PastOfASameText}

InitFilter ==
    /\ InitBreaker
    /\ r_usage = <<>>
    /\ r_articles = <<>>
    /\ r_out = NoOutput
    /\ InitOrchIdle
    /\ f_in \in [recommendations : FilterCandidateInputs,
                  past_recommendations : FilterPastInputs]
    /\ f_out = NoFilterOutput
    /\ InitGateIdle
    /\ InitStoreIdle
    /\ InitServiceIdle

ApplyFilter ==
    /\ ~f_out.ran
    /\ f_out' = [ran |-> TRUE,
                 result |-> filter_past_recommendations(f_in.recommendations,
                                                        f_in.past_recommendations)]
    /\ UNCHANGED <<f_in, r_usage, r_articles, r_out, gateVars, storeVars, svcVars>>
    /\ UNCHANGED cbVars
    /\ UNCHANGED orchVars

NextFilter == ApplyFilter

SpecFilter == InitFilter /\ [][NextFilter]_vars

(***************************************************************************)
(* SpecGate: SentimentAgent.run computes the sentiment result from an      *)
(* interaction history, and _apply_sentiment_filter is applied with that   *)
(* score and those factors to a list of candidates.                        *)
(***************************************************************************)
GateCandidateInputs ==
    { <<FilterCandidateB>>, <<FilterCandidateA, FilterCandidateB>>,
      <<FilterCandidateB, FilterCandidateA>> }

ResolutionStatuses == {"Resolved", "Pending", "Escalated"}

GateInteractions ==
    [sentiment_score : {-50, -21, -20, 80},
     resolution_status : ResolutionStatuses,
     age_days : {5, 45}]

GateInteractionInputs ==
    {<<>>} \cup {<<i>> : i \in GateInteractions}
    \cup {<<i, j>> : i \in GateInteractions,
                     j \in {x \in GateInteractions : x.age_days = 45}}

InitGate ==
    /\ InitBreaker
    /\ r_usage = <<>>
    /\ r_articles = <<>>
    /\ r_out = NoOutput
    /\ InitOrchIdle
    /\ InitFilterIdle
    /\ InitStoreIdle
    /\ InitServiceIdle
    /\ \E recs \in GateCandidateInputs, interactions \in GateInteractionInputs :
            g_in = [recommendations |-> recs, interactions |-> interactions,
                    sentiment |-> sentiment_run(interactions)]
    /\ g_out = NoGateOutput

ApplyGate ==
    /\ ~g_out.ran
    /\ g_out' = [ran |-> TRUE,
                 result |-> apply_sentiment_filter(g_in.recommendations,
                                                   g_in.sentiment.sentiment_score,
                                                   g_in.sentiment.sentiment_factors)]
    /\ UNCHANGED <<g_in, r_usage, r_articles, r_out, filterVars, storeVars, svcVars>>
    /\ UNCHANGED cbVars
    /\ UNCHANGED orchVars

NextGate == ApplyGate

SpecGate == InitGate /\ [][NextGate]_vars


(***************************************************************************)
(* SpecCB: interleaved call() invocations on one breaker.  asyncio runs a  *)
(* coroutine without interruption between two awaits, so call() is two     *)
(* atomic steps: entry up to `await func`, and the code after it.          *)
(***************************************************************************)
InitCB ==
    /\ InitBreaker
    /\ InitReasonIdle
    /\ InitOrchIdle

CallEnter(c) ==
    /\ pc[c] = "idle"
    /\ LET r == call_admission(breaker, now)
       IN  /\ breaker' = r.b
           /\ IF r.admitted
              THEN /\ pc' = [pc EXCEPT ![c] = "awaiting"]
                   /\ role' = [role EXCEPT ![c] = IF r.probe THEN "probe" ELSE "normal"]
                   /\ ev' = "admit"
              ELSE /\ UNCHANGED <<pc, role>>
                   /\ ev' = "reject"
    /\ UNCHANGED <<now, consec, probe_fail_time>>
    /\ UNCHANGED reasonVars
    /\ UNCHANGED orchVars

CallReturn(c) ==
    /\ pc[c] = "awaiting"
    /\ breaker' = call_success(breaker)
    /\ pc' = [pc EXCEPT ![c] = "idle"]
    /\ role' = [role EXCEPT ![c] = "none"]
    /\ ev' = "return"
    /\ consec' = 0
    /\ UNCHANGED <<now, probe_fail_time>>
    /\ UNCHANGED reasonVars
    /\ UNCHANGED orchVars

CallRaise(c) ==
    /\ pc[c] = "awaiting"
    /\ breaker.failure_count < MaxFailures
    /\ breaker' = call_failure(breaker, now)
    /\ pc' = [pc EXCEPT ![c] = "idle"]
    /\ role' = [role EXCEPT ![c] = "none"]
    /\ ev' = "raise"
    /\ consec' = IF consec < failure_threshold THEN consec + 1 ELSE consec
    /\ probe_fail_time' = IF role[c] = "probe" THEN now ELSE probe_fail_time
    /\ UNCHANGED now
    /\ UNCHANGED reasonVars
    /\ UNCHANGED orchVars

\* the task awaiting func is cancelled: CancelledError is not an Exception,
\* so neither branch of the try statement runs
CallCancel(c) ==
    /\ pc[c] = "awaiting"
    /\ pc' = [pc EXCEPT ![c] = "idle"]
    /\ role' = [role EXCEPT ![c] = "none"]
    /\ ev' = "cancel"
    /\ UNCHANGED <<breaker, now, consec, probe_fail_time>>
    /\ UNCHANGED reasonVars
    /\ UNCHANGED orchVars

Tick ==
    /\ now < MaxTime
    /\ now' = now + 1
    /\ ev' = "tick"
    /\ UNCHANGED <<breaker, pc, role, consec, probe_fail_time>>
    /\ UNCHANGED reasonVars
    /\ UNCHANGED orchVars

NextCB ==
    \/ \E c \in Callers : CallEnter(c)
    \/ \E c \in Callers : CallReturn(c)
    \/ \E c \in Callers : CallRaise(c)
    \/ \E c \in Callers : CallCancel(c)
    \/ Tick

SpecCB == InitCB /\ [][NextCB]_vars

\* call()s made one after the other: no call is entered while another is suspended
CallEnterSeq(c) ==
    /\ \A d \in Callers : pc[d] = "idle"
    /\ CallEnter(c)

NextCBSeq ==
    \/ \E c \in Callers : CallEnterSeq(c)
    \/ \E c \in Callers : CallReturn(c)
    \/ \E c \in Callers : CallRaise(c)
    \/ \E c \in Callers : CallCancel(c)
    \/ Tick

SpecCBSeq == InitCB /\ [][NextCBSeq]_vars

(***************************************************************************)
(* SpecCtx: one breaker used through call() and through `async with`,      *)
(* interleaved.  A block is two atomic steps as well: __aenter__, and       *)
(* __aexit__ once the body has ended.  pc is "in_block" while the body      *)
(* runs; role records whether the block was entered while the breaker was   *)
(* recovering (Open with the timeout elapsed, or HalfOpen).                 *)
(***************************************************************************)
\* the callers that also use the breaker through `async with`
BlockUsers == {1, 2}

BlockEnter(c) ==
    /\ pc[c] = "idle"
    /\ LET r == aenter(breaker, now)
       IN  /\ breaker' = r.b
           /\ IF r.admitted
              THEN /\ pc' = [pc EXCEPT ![c] = "in_block"]
                   /\ role' = [role EXCEPT ![c] =
                                 IF breaker.state = CLOSED THEN "block"
                                 ELSE "recovery_block"]
                   /\ ev' = "block_admit"
              ELSE /\ UNCHANGED <<pc, role>>
                   /\ ev' = "block_reject"
    /\ UNCHANGED <<now, consec, probe_fail_time>>
    /\ UNCHANGED reasonVars
    /\ UNCHANGED orchVars

\* the body ended normally
BlockExit(c) ==
    /\ pc[c] = "in_block"
    /\ breaker' = aexit(breaker, now, FALSE)
    /\ pc' = [pc EXCEPT ![c] = "idle"]
    /\ role' = [role EXCEPT ![c] = "none"]
    /\ ev' = "block_exit"
    /\ consec' = 0
    /\ UNCHANGED <<now, probe_fail_time>>
    /\ UNCHANGED reasonVars
    /\ UNCHANGED orchVars

\* the body raised, or the task running it was cancelled
BlockFail(c) ==
    /\ pc[c] = "in_block"
    /\ breaker.failure_count < MaxFailures
    /\ breaker' = aexit(breaker, now, TRUE)
    /\ pc' = [pc EXCEPT ![c] = "idle"]
    /\ role' = [role EXCEPT ![c] = "none"]
    /\ ev' = "block_fail"
    /\ consec' = IF consec < failure_threshold THEN consec + 1 ELSE consec
    /\ UNCHANGED <<now, probe_fail_time>>
    /\ UNCHANGED reasonVars
    /\ UNCHANGED orchVars

NextCtx ==
    \/ \E c \in BlockUsers : BlockEnter(c)
    \/ \E c \in BlockUsers : BlockExit(c)
    \/ \E c \in BlockUsers : BlockFail(c)
    \/ \E c \in Callers : CallEnter(c)
    \/ \E c \in Callers : CallReturn(c)
    \/ \E c \in Callers : CallRaise(c)
    \/ \E c \in Callers : CallCancel(c)
    \/ Tick

SpecCtx == InitCB /\ [][NextCtx]_vars

(***************************************************************************)
(* Spec: generation cycles on one RecommendationOrchestrator.  A cycle is  *)
(* the call generate_recommendations(customer_id, days, past); a stage's   *)
(* coroutine advances in atomic steps from one await to the next.  What    *)
(* the external collaborators answer (the Fabric IQ query behind the       *)
(* breaker, the Redis cache, the Foundry IQ search, the interaction        *)
(* history, the duplicate query, the content-safety service) is chosen by  *)
(* the environment: a value or an exception.  With ENV=local the clients   *)
(* answer from their mock data.  The execution times the stages measure    *)
(* are chosen by the environment as well.                                  *)
(***************************************************************************)
Envs == {"local", "prod"}
ExecTimes == {0, 150}
GenerationTimes == {1800, 2000, 2400}
DaysInputs == {0, 90}
CacheOutcomes == {"miss", "hit"}
SourceUsageLists == {<<>>, MockUsage}
SourceArticleLists == {<<>>, <<kb_article_7890, kb_article_3456>>}
SourceInteractionLists ==
    { <<>>, MockInteractions,
      << [sentiment_score |-> -60, resolution_status |-> "Escalated",
          age_days |-> 2] >> }

DataExportPastText ==
    [template |-> "increase", features |-> <<"Data Export">>, usage |-> 12,
     insight |-> "insight_7890", style |-> "lower"]

PastInputs ==
    { <<>>,
      << [recommendation_text |-> DataExportPastText,
          outcome_status |-> "Pending", outcome_timestamp |-> NoTimestamp] >>,
      << [recommendation_text |-> NullText,
          outcome_status |-> "Pending", outcome_timestamp |-> NoTimestamp] >> }

\* what the duplicate query reports for the candidates: it raises, or it names
\* some of them; with ENV=local there is no query and no candidate is removed
DuplicateReports(candidates) ==
    LET ids == {candidates[k].recommendation_id : k \in 1..Len(candidates)}
    IN  IF env = "local" THEN {[raises |-> FALSE, ids |-> {}]}
        ELSE {[raises |-> TRUE, ids |-> {}]}
             \cup {[raises |-> FALSE, ids |-> d] :
                     d \in {x \in SUBSET ids : Cardinality(x) <= MaxFlagged}}

\* what the content-safety client does for the texts of the candidates: which
\* calls are flagged and which fail; the mock of ENV=local makes no call and
\* reports every text safe
SafetyReports(candidates) ==
    LET texts == {candidates[k].text_description : k \in 1..Len(candidates)}
    IN  IF env = "local" THEN {[flagged |-> {}, errored |-> {}]}
        ELSE {[flagged |-> f, errored |-> e] :
                f \in {x \in SUBSET texts : Cardinality(x) <= MaxFlagged},
                e \in {x \in SUBSET texts : Cardinality(x) <= MaxFlagged}}

InitOrch ==
    /\ env \in Envs
    /\ o_pc = "idle"
    /\ retr = NoRetrieval
    /\ sent = NoSentiment
    /\ reas = NoReasoning
    /\ val = NoValidation
    /\ result = NoResult
    /\ hist = NoHistory

Init ==
    /\ InitBreaker
    /\ InitReasonIdle
    /\ InitOrch

cbHistory == <<pc, role, ev, probe_fail_time>>

\* no coroutine of an earlier cycle is still suspended
Quiescent ==
    /\ o_pc \in {"idle", "returned", "raised"}
    /\ retr.pc \notin {"gathering", "refining"}
    /\ retr.u_pc # "awaiting_source"
    /\ retr.k_pc # "awaiting"
    /\ sent.pc \notin {"started", "awaiting"}

\* faulty variant: only a negative lookback is rejected
days_rejected_negative_only(days) ==
    days < 0

\* `if days <= 0: raise ValueError("days must be positive")`
days_rejected(days) ==
    days <= 0

\* generate_recommendations up to `await asyncio.gather(...)`
StartCycle(days) ==
    /\ Quiescent
    /\ IF days_rejected(days)
       THEN /\ o_pc' = "raised"
            /\ retr' = NoRetrieval
            /\ sent' = NoSentiment
       ELSE /\ o_pc' = "phase1"
            /\ retr' = [NoRetrieval EXCEPT !.pc = "gathering"]
            /\ sent' = [NoSentiment EXCEPT !.pc = "started"]
    /\ reas' = NoReasoning
    /\ val' = NoValidation
    /\ result' = NoResult
    /\ hist' = [NoHistory EXCEPT !.days = days]
    /\ UNCHANGED <<env, now, consec>>
    /\ UNCHANGED cbHistory
    /\ UNCHANGED reasonVars

\* a further call on the same orchestrator: its clients and their breaker persist
GenerateStart(days) ==
    /\ StartCycle(days)
    /\ UNCHANGED breaker

\* faulty variant: a rejected usage query is raised to the caller
on_circuit_open_raises(r) ==
    [r EXCEPT !.u_pc = "failed", !.u_how = "rejected", !.error = "usage_fetch"]

\* get_usage_trends, `except CircuitBreakerOpenError: return []`
on_circuit_open(r) ==
    [r EXCEPT !.u_pc = "done", !.u_how = "rejected", !.usage_data = <<>>]

\* FabricIQClient.get_usage_trends up to its return or to `await func` in call()
UsageFetch(cached) ==
    /\ retr.pc = "gathering"
    /\ retr.u_pc = "none"
    /\ IF env = "local"
       THEN /\ retr' = [retr EXCEPT !.u_pc = "done", !.u_how = "mock",
                                    !.usage_data = MockUsage]
            /\ UNCHANGED breaker
       ELSE IF cached = "hit"
       THEN /\ retr' = [retr EXCEPT !.u_pc = "done", !.u_how = "cache",
                                    !.usage_data = MockUsage]
            /\ UNCHANGED breaker
       ELSE LET r == call_admission(breaker, now)
            IN  /\ breaker' = r.b
                /\ retr' = IF r.admitted
                           THEN [retr EXCEPT !.u_pc = "awaiting_source",
                                             !.source_invoked = TRUE]
                           ELSE on_circuit_open(retr)
    /\ UNCHANGED <<env, o_pc, sent, reas, val, result, hist, now, consec>>
    /\ UNCHANGED cbHistory
    /\ UNCHANGED reasonVars

\* _query_fabric_iq returns: call() records the success
UsageSourceReturns(data) ==
    /\ retr.u_pc = "awaiting_source"
    /\ breaker' = call_success(breaker)
    /\ consec' = 0
    /\ retr' = [retr EXCEPT !.u_pc = "done", !.u_how = "source",
                            !.usage_data = data]
    /\ UNCHANGED <<env, o_pc, sent, reas, val, result, hist, now>>
    /\ UNCHANGED cbHistory
    /\ UNCHANGED reasonVars

\* _query_fabric_iq raises: call() records the failure and re-raises
UsageSourceRaises ==
    /\ retr.u_pc = "awaiting_source"
    /\ breaker.failure_count < MaxFailures
    /\ breaker' = call_failure(breaker, now)
    /\ consec' = IF consec < failure_threshold THEN consec + 1 ELSE consec
    /\ retr' = [retr EXCEPT !.u_pc = "failed",
                            !.error = IF @ = "none" THEN "usage_fetch" ELSE @]
    /\ UNCHANGED <<env, o_pc, sent, reas, val, result, hist, now>>
    /\ UNCHANGED cbHistory
    /\ UNCHANGED reasonVars

\* FoundryIQClient.search_knowledge(query=..., top_k=10)
KnowledgeSearch ==
    /\ retr.pc = "gathering"
    /\ retr.k_pc = "none"
    /\ retr' = IF env = "local"
               THEN [retr EXCEPT !.k_pc = "done",
                        !.knowledge_articles =
                            get_mock_knowledge_articles(InitialQuery, 10)]
               ELSE [retr EXCEPT !.k_pc = "awaiting"]
    /\ UNCHANGED <<env, o_pc, sent, reas, val, result, hist>>
    /\ UNCHANGED cbVars
    /\ UNCHANGED reasonVars

KnowledgeReturns(articles) ==
    /\ retr.k_pc = "awaiting"
    /\ retr' = [retr EXCEPT !.k_pc = "done", !.knowledge_articles = articles]
    /\ UNCHANGED <<env, o_pc, sent, reas, val, result, hist>>
    /\ UNCHANGED cbVars
    /\ UNCHANGED reasonVars

KnowledgeRaises ==
    /\ retr.k_pc = "awaiting"
    /\ retr' = [retr EXCEPT !.k_pc = "failed",
                            !.error = IF @ = "none" THEN "knowledge_search" ELSE @]
    /\ UNCHANGED <<env, o_pc, sent, reas, val, result, hist>>
    /\ UNCHANGED cbVars
    /\ UNCHANGED reasonVars

FirstDone(stage) ==
    [hist EXCEPT !.p1_first = IF @ = "none" THEN stage ELSE @]

\* the inner gather of RetrievalAgent.run raises the first failure of its tasks
RetrievalGatherFails ==
    /\ retr.pc = "gathering"
    /\ retr.u_pc # "none"
    /\ retr.k_pc # "none"
    /\ "failed" \in {retr.u_pc, retr.k_pc}
    /\ retr' = [retr EXCEPT !.pc = "failed"]
    /\ UNCHANGED <<env, o_pc, sent, reas, val, result, hist>>
    /\ UNCHANGED cbVars
    /\ UNCHANGED reasonVars

\* RetrievalAgent.run after its gather: the confidence, then either the refined
\* search (when there is usage data) or the result
RetrievalContinue(t) ==
    /\ retr.pc = "gathering"
    /\ retr.u_pc = "done"
    /\ retr.k_pc = "done"
    /\ LET confidence == retrieval_calculate_confidence(retr.usage_data,
                                                        retr.knowledge_articles)
           refined_query == build_search_query(retr.usage_data)
       IN  IF retr.usage_data = <<>>
           THEN /\ retr' = [retr EXCEPT !.pc = "done",
                               !.confidence = confidence,
                               !.all_articles = retr.knowledge_articles,
                               !.execution_time_ms = t]
                /\ hist' = FirstDone("Retrieval")
           ELSE IF env = "local"
           THEN /\ retr' = [retr EXCEPT !.pc = "done",
                               !.confidence = confidence,
                               !.refined_query = refined_query,
                               !.all_articles =
                                   deduplicate_articles(
                                       retr.knowledge_articles
                                       \o get_mock_knowledge_articles(refined_query, 5)),
                               !.execution_time_ms = t]
                /\ hist' = FirstDone("Retrieval")
           ELSE /\ retr' = [retr EXCEPT !.pc = "refining",
                               !.confidence = confidence,
                               !.refined_query = refined_query]
                /\ UNCHANGED hist
    /\ UNCHANGED <<env, o_pc, sent, reas, val, result>>
    /\ UNCHANGED cbVars
    /\ UNCHANGED reasonVars

RefinedReturns(articles, t) ==
    /\ retr.pc = "refining"
    /\ retr' = [retr EXCEPT !.pc = "done",
                   !.all_articles =
                       deduplicate_articles(retr.knowledge_articles \o articles),
                   !.execution_time_ms = t]
    /\ hist' = FirstDone("Retrieval")
    /\ UNCHANGED <<env, o_pc, sent, reas, val, result>>
    /\ UNCHANGED cbVars
    /\ UNCHANGED reasonVars

RefinedRaises ==
    /\ retr.pc = "refining"
    /\ retr' = [retr EXCEPT !.pc = "failed", !.error = "refined_search"]
    /\ UNCHANGED <<env, o_pc, sent, reas, val, result, hist>>
    /\ UNCHANGED cbVars
    /\ UNCHANGED reasonVars

\* SentimentAgent.run up to the interaction history
SentimentBegin(t) ==
    /\ sent.pc = "started"
    /\ IF env = "local"
       THEN /\ sent' = [pc |-> "done", result |-> sentiment_run(MockInteractions),
                        execution_time_ms |-> t]
            /\ hist' = FirstDone("Sentiment")
       ELSE /\ sent' = [sent EXCEPT !.pc = "awaiting"]
            /\ UNCHANGED hist
    /\ UNCHANGED <<env, o_pc, retr, reas, val, result>>
    /\ UNCHANGED cbVars
    /\ UNCHANGED reasonVars

InteractionsReturn(interactions, t) ==
    /\ sent.pc = "awaiting"
    /\ sent' = [pc |-> "done", result |-> sentiment_run(interactions),
                execution_time_ms |-> t]
    /\ hist' = FirstDone("Sentiment")
    /\ UNCHANGED <<env, o_pc, retr, reas, val, result>>
    /\ UNCHANGED cbVars
    /\ UNCHANGED reasonVars

InteractionsRaise ==
    /\ sent.pc = "awaiting"
    /\ sent' = [sent EXCEPT !.pc = "failed"]
    /\ UNCHANGED <<env, o_pc, retr, reas, val, result, hist>>
    /\ UNCHANGED cbVars
    /\ UNCHANGED reasonVars

\* faulty variant: Phase 2 does not wait for the Sentiment stage
phase1_complete_retrieval_only ==
    retr.pc = "done"

\* `retrieval_result, sentiment_result = await asyncio.gather(...)` has returned
phase1_complete ==
    retr.pc = "done" /\ sent.pc = "done"

\* the messages of the exceptions the Phase-1 stages have raised
Phase1Errors ==
    (IF retr.pc = "failed" THEN {retr.error} ELSE {})
    \cup (IF sent.pc = "failed" THEN {"interactions"} ELSE {})

\* the gather of Phase 1 raises the failure of a stage into the except branch
Phase1Fails(error) ==
    /\ o_pc = "phase1"
    /\ sent.pc # "started"
    /\ error \in Phase1Errors
    /\ o_pc' = "except"
    /\ hist' = [hist EXCEPT !.error = error]
    /\ UNCHANGED <<env, retr, sent, reas, val, result>>
    /\ UNCHANGED cbVars
    /\ UNCHANGED reasonVars

\* Phase 2: ReasoningAgent.run, which suspends nowhere
ReasoningStage(past, t) ==
    /\ o_pc = "phase1"
    /\ phase1_complete
    /\ IF reasoning_raises(past)
       THEN /\ reas' = [NoReasoning EXCEPT !.pc = "failed", !.past_recs = past]
            /\ o_pc' = "except"
            /\ hist' = [hist EXCEPT !.error = "reasoning"]
       ELSE /\ reas' = [pc |-> "done", past_recs |-> past,
                        result |-> reasoning_run(retr.usage_data, retr.all_articles,
                                      sent.result.sentiment_score,
                                      sent.result.sentiment_factors, past),
                        execution_time_ms |-> t]
            /\ o_pc' = "phase3"
            /\ UNCHANGED hist
    /\ UNCHANGED <<env, retr, sent, val, result>>
    /\ UNCHANGED cbVars
    /\ UNCHANGED reasonVars

\* Phase 3: ValidationAgent.run
ValidationStage(t) ==
    /\ o_pc = "phase3"
    /\ LET all_candidates == reas.result.adoption_recommendations
                             \o reas.result.upsell_recommendations
       IN  \E dup \in DuplicateReports(all_candidates),
              report \in SafetyReports(all_candidates) :
              LET after_dedup == check_duplicates(all_candidates, dup.ids)
                  texts == {after_dedup[k].text_description :
                               k \in 1..Len(after_dedup)}
                  flagged == report.flagged \cap texts
                  errored == (report.errored \cap texts) \ flagged
                  unsafe_texts ==
                      texts_not_safe(texts, [flagged |-> flagged,
                                             errored |-> errored])
              IN  IF all_candidates # <<>> /\ (dup.raises \/ after_dedup = <<>>)
                  THEN \* _check_duplicates raised, or validate_batch([]) did
                       /\ val' = [NoValidation EXCEPT !.pc = "failed"]
                       /\ o_pc' = "except"
                       /\ hist' = [hist EXCEPT !.error = "validation"]
                  ELSE /\ val' = [pc |-> "done",
                                  duplicates |-> IF all_candidates = <<>> THEN {}
                                                 ELSE dup.ids,
                                  unsafe_texts |-> unsafe_texts,
                                  error_texts |-> errored,
                                  result |-> validation_run(reas.result, dup.ids,
                                                            unsafe_texts),
                                  execution_time_ms |-> t]
                       /\ o_pc' = "assembling"
                       /\ UNCHANGED hist
    /\ UNCHANGED <<env, retr, sent, reas, result>>
    /\ UNCHANGED cbVars
    /\ UNCHANGED reasonVars

\* _log_agent_contributions and the construction of the result
AssembleResult(generation_time_ms) ==
    /\ o_pc = "assembling"
    /\ LET agent_contributions == log_agent_contributions(retr, sent, reas, val)
       IN  IF \A k \in 1..Len(agent_contributions) :
                  contribution_accepted(agent_contributions[k])
           THEN /\ result' = build_result(val.result, agent_contributions,
                                          generation_time_ms)
                /\ o_pc' = "returned"
                /\ hist' = [hist EXCEPT !.contributions = "built"]
           ELSE /\ o_pc' = "except"
                /\ hist' = [hist EXCEPT !.contributions = "rejected",
                                        !.error = "contributions"]
                /\ UNCHANGED result
    /\ UNCHANGED <<env, retr, sent, reas, val>>
    /\ UNCHANGED cbVars
    /\ UNCHANGED reasonVars

\* `except Exception as e: return await self._graceful_degradation(...)`
ReturnDegraded(generation_time_ms) ==
    /\ o_pc = "except"
    /\ result' = graceful_degradation(hist.error, generation_time_ms)
    /\ o_pc' = "returned"
    /\ UNCHANGED <<env, retr, sent, reas, val, hist>>
    /\ UNCHANGED cbVars
    /\ UNCHANGED reasonVars

CycleSteps ==
    \/ \E cached \in CacheOutcomes : UsageFetch(cached)
    \/ \E data \in SourceUsageLists : UsageSourceReturns(data)
    \/ UsageSourceRaises
    \/ KnowledgeSearch
    \/ \E articles \in SourceArticleLists : KnowledgeReturns(articles)
    \/ KnowledgeRaises
    \/ RetrievalGatherFails
    \/ \E t \in ExecTimes : RetrievalContinue(t)
    \/ \E articles \in SourceArticleLists, t \in ExecTimes :
            RefinedReturns(articles, t)
    \/ RefinedRaises
    \/ \E t \in ExecTimes : SentimentBegin(t)
    \/ \E interactions \in SourceInteractionLists, t \in ExecTimes :
            InteractionsReturn(interactions, t)
    \/ InteractionsRaise
    \/ \E error \in {"usage_fetch", "knowledge_search", "refined_search",
                     "interactions"} : Phase1Fails(error)
    \/ \E past \in PastInputs, t \in ExecTimes : ReasoningStage(past, t)
    \/ \E t \in ExecTimes : ValidationStage(t)
    \/ \E g \in GenerationTimes : AssembleResult(g)
    \/ \E g \in GenerationTimes : ReturnDegraded(g)

Next ==
    \/ \E days \in DaysInputs : GenerateStart(days)
    \/ CycleSteps

Spec == Init /\ [][Next]_vars

(***************************************************************************)
(* SpecApi: the generate endpoint of api/recommendations.py constructs a   *)
(* RecommendationService, and with it an orchestrator, a FabricIQClient    *)
(* and a CircuitBreaker, for every request, and calls                      *)
(* generate_recommendations with the default days=90.                      *)
(***************************************************************************)
DefaultDays == 90

ApiRequest ==
    /\ StartCycle(DefaultDays)
    /\ breaker' = NewBreaker

NextApi ==
    \/ ApiRequest
    \/ CycleSteps

SpecApi == Init /\ [][NextApi]_vars

(***************************************************************************)
(* SpecStore: the recommendations container under _cache_recommendations   *)
(* and update_recommendation_outcome, the latter called by the outcome     *)
(* endpoint and by the acceptance endpoint of api/recommendations.py.      *)
(* previous_status is history: the status a document had before the last   *)
(* update that changed it.                                                 *)
(***************************************************************************)
AgentIds == {"agent_1", ""}
TokenSubject == "agent_2"
StatusStrings == OutcomeStatuses \cup {"Dismissed"}

\* the document _cache_recommendations upserts for a recommendation
cached_document ==
    [present |-> TRUE, outcome_status |-> "Pending",
     delivered_by_agent_id |-> NullAgent, outcome_timestamp |-> NoTimestamp,
     previous_status |-> "none"]

\* faulty variant: the update leaves the outcome timestamp as it was
updated_document_keeps_timestamp(doc, outcome_status, agent_id) ==
    [doc EXCEPT !.outcome_status = outcome_status,
                !.delivered_by_agent_id = agent_id,
                !.previous_status =
                    IF doc.outcome_status # outcome_status
                    THEN doc.outcome_status ELSE @]

\* the fields update_recommendation_outcome sets before the upsert
updated_document(doc, outcome_status, agent_id) ==
    [doc EXCEPT !.outcome_status = outcome_status,
                !.delivered_by_agent_id = agent_id,
                !.outcome_timestamp = [form |-> "naive", age_days |-> 0],
                !.previous_status =
                    IF doc.outcome_status # outcome_status
                    THEN doc.outcome_status ELSE @]

\* update_recommendation_outcome: the container after the call and the value
\* returned; `raises` is a failure of the query or of the upsert
update_recommendation_outcome(recommendation_id, outcome_status, agent_id, raises) ==
    IF env = "local" THEN [store |-> store, returned |-> "true"]
    ELSE IF raises THEN [store |-> store, returned |-> "false"]
    ELSE IF ~store[recommendation_id].present
    THEN [store |-> store, returned |-> "false"]
    ELSE [store |-> [store EXCEPT ![recommendation_id] =
                        updated_document(@, outcome_status, agent_id)],
          returned |-> "true"]

InitStore ==
    /\ InitBreaker
    /\ r_usage = <<>>
    /\ r_articles = <<>>
    /\ r_out = NoOutput
    /\ InitFilterIdle
    /\ InitGateIdle
    /\ InitOrch
    /\ InitStoreIdle
    /\ InitServiceIdle

\* _cache_recommendations for the recommendations of a fresh result: `stored`
\* are those upserted before an upsert raised, all of them if none did
CacheRecommendations(recs, stored) ==
    /\ recs # {}
    /\ \A id \in recs : ~store[id].present
    /\ stored \subseteq recs
    /\ IF env = "local"
       THEN /\ UNCHANGED store
            /\ s_ret' = "skipped"
       ELSE /\ store' = [id \in RecommendationIds |->
                            IF id \in stored THEN cached_document ELSE store[id]]
            /\ s_ret' = IF stored = recs THEN "cached" ELSE "cache_failed"
    /\ UNCHANGED <<r_usage, r_articles, r_out, filterVars, gateVars, svcVars>>
    /\ UNCHANGED cbVars
    /\ UNCHANGED orchVars

\* PUT /{recommendation_id}/outcome
UpdateOutcomeEndpoint(recommendation_id, status_string, agent_id, raises) ==
    /\ IF status_string \notin OutcomeStatuses
       THEN /\ UNCHANGED store
            /\ s_ret' = "http_400"
       ELSE LET r == update_recommendation_outcome(recommendation_id,
                        status_string, agent_id, raises)
            IN  /\ store' = r.store
                /\ s_ret' = IF r.returned = "true" THEN "http_200" ELSE "http_404"
    /\ UNCHANGED <<r_usage, r_articles, r_out, filterVars, gateVars, svcVars>>
    /\ UNCHANGED cbVars
    /\ UNCHANGED orchVars

\* POST /{recommendation_id}/acceptance
TrackAcceptance(recommendation_id, agent_confirmed, raises) ==
    /\ LET outcome_status == IF agent_confirmed THEN "Delivered" ELSE "Pending"
           r == update_recommendation_outcome(recommendation_id, outcome_status,
                                              TokenSubject, raises)
       IN  /\ store' = r.store
           /\ s_ret' = IF r.returned = "true" THEN "http_200" ELSE "http_404"
    /\ UNCHANGED <<r_usage, r_articles, r_out, filterVars, gateVars, svcVars>>
    /\ UNCHANGED cbVars
    /\ UNCHANGED orchVars

NextStore ==
    \/ \E recs \in SUBSET RecommendationIds, stored \in SUBSET RecommendationIds :
            CacheRecommendations(recs, stored)
    \/ \E id \in RecommendationIds, status_string \in StatusStrings,
           agent_id \in AgentIds, raises \in BOOLEAN :
            UpdateOutcomeEndpoint(id, status_string, agent_id, raises)
    \/ \E id \in RecommendationIds, agent_confirmed \in BOOLEAN,
           raises \in BOOLEAN :
            TrackAcceptance(id, agent_confirmed, raises)

SpecStore == InitStore /\ [][NextStore]_vars

(***************************************************************************)
(* SpecService: RecommendationService.generate_recommendations called      *)
(* again and again for one customer, with the recommendations container    *)
(* between the calls.  A document is the dict the orchestrator returned    *)
(* for a recommendation plus the fields _cache_recommendations adds;       *)
(* recommendation_text is what `.get("recommendation_text", "")` gives for *)
(* it, and `fresh` says that its generation_timestamp is within the last   *)
(* 24 hours.  The orchestrator is represented by the history filter of its *)
(* Reasoning stage applied to the candidates `generated`; `kept` are the   *)
(* candidates the later steps of the cycle do not remove (none of them in  *)
(* a degraded cycle).  svc.ret and svc.call describe the call that has     *)
(* just returned and are cleared by the next change of the container.      *)
(***************************************************************************)
ServiceCandidateInputs == { <<FilterCandidateA>>, <<FilterCandidateA, FilterCandidateB>> }
ServiceOutcomes == {"Accepted", "Declined"}

MockText(name) ==
    [template |-> name, features |-> <<>>, usage |-> 0, insight |-> "",
     style |-> "generated"]

\* _get_mock_past_recommendations: rec-001 .. rec-004
mock_past_recommendations ==
    << [recommendation_text |-> MockText("rec-001"), outcome_status |-> "Accepted",
        outcome_timestamp |-> [form |-> "naive", age_days |-> 8]],
       [recommendation_text |-> MockText("rec-002"), outcome_status |-> "Declined",
        outcome_timestamp |-> [form |-> "naive", age_days |-> 23]],
       [recommendation_text |-> MockText("rec-003"), outcome_status |-> "Delivered",
        outcome_timestamp |-> [form |-> "naive", age_days |-> 44]],
       [recommendation_text |-> MockText("rec-004"), outcome_status |-> "Pending",
        outcome_timestamp |-> NoTimestamp] >>

\* the document _cache_recommendations upserts for recommendation rec of the
\* n-th orchestrator run: the dict has text_description and no
\* recommendation_text
service_document(rec, n) ==
    [recommendation_id |-> <<n, rec.recommendation_id>>,
     recommendation_type |-> rec.recommendation_type,
     text_description |-> rec.text_description,
     recommendation_text |-> EmptyText,
     outcome_status |-> "Pending",
     outcome_timestamp |-> NoTimestamp,
     fresh |-> TRUE]

\* what _filter_past_recommendations reads of a stored document
past_recommendation_of(doc) ==
    [recommendation_text |-> doc.recommendation_text,
     outcome_status |-> doc.outcome_status,
     outcome_timestamp |-> doc.outcome_timestamp]

\* faulty variant: a document of any status within 24 hours counts as cached
get_cached_recommendations_any_status(docs, fails) ==
    LET Recent(d) == d.fresh
        items == SelectSeq(docs, Recent)
    IN  IF env = "local" \/ fails \/ items = <<>>
        THEN [hit |-> FALSE, items |-> <<>>]
        ELSE [hit |-> TRUE, items |-> items]

\* _get_cached_recommendations; `fails` is a failure of the query
get_cached_recommendations(docs, fails) ==
    LET Recent(d) == d.fresh /\ d.outcome_status = "Pending"
        items == SelectSeq(docs, Recent)
    IN  IF env = "local" \/ fails \/ items = <<>>
        THEN [hit |-> FALSE, items |-> <<>>]
        ELSE [hit |-> TRUE, items |-> items]

\* get_past_recommendations(customer_id, months=12) when the query succeeds
get_past_recommendations(docs) ==
    IF env = "local" THEN mock_past_recommendations
    ELSE [k \in 1..Len(docs) |-> past_recommendation_of(docs[k])]

\* _cache_recommendations: the container afterwards; `stored` is the number of
\* upserts made before one raised (0 when the first one did), Len(recs) if
\* none did
cache_recommendations(docs, recs, n, stored) ==
    IF env = "local" THEN docs
    ELSE [k \in 1..stored |-> service_document(recs[stored + 1 - k], n)] \o docs

IdsOfType(items, type) ==
    LET Is(d) == d.recommendation_type = type
        chosen == SelectSeq(items, Is)
    IN  [k \in 1..Len(chosen) |-> chosen[k].recommendation_id]

InitService ==
    /\ InitBreaker
    /\ r_usage = <<>>
    /\ r_articles = <<>>
    /\ r_out = NoOutput
    /\ InitFilterIdle
    /\ InitGateIdle
    /\ InitOrch
    /\ InitStoreIdle
    /\ InitServiceIdle

\* generate_recommendations(customer_id, force_refresh)
ServiceGenerate(force_refresh, cache_fails, history_fails, generated, kept, stored) ==
    LET cached_result ==
            IF force_refresh THEN [hit |-> FALSE, items |-> <<>>]
            ELSE get_cached_recommendations(svc.docs, cache_fails)
        Pending(d) == d.outcome_status = "Pending"
        Recent(d) == d.fresh /\ d.outcome_status = "Pending"
        call == [NoServiceCall EXCEPT
                    !.force_refresh = force_refresh,
                    !.cache = IF force_refresh THEN "skipped"
                              ELSE IF cached_result.hit THEN "hit"
                              ELSE IF cache_fails /\ env # "local" THEN "failed"
                              ELSE "miss",
                    !.fresh_pending = SelectSeq(svc.docs, Recent),
                    !.pending_before = {d.text_description : d \in
                        {svc.docs[k] : k \in {j \in 1..Len(svc.docs) :
                                                  Pending(svc.docs[j])}}}]
    IN  /\ (cache_fails \/ history_fails) => env # "local"
        /\ cache_fails => ~force_refresh
        /\ IF cached_result.hit
           THEN /\ generated = <<FilterCandidateA>> /\ kept = {} /\ stored = 0
                /\ ~history_fails
                /\ svc' = [svc EXCEPT
                             !.ret = [adoption_recommendations |->
                                         IdsOfType(cached_result.items, AdoptionType),
                                      upsell_recommendations |->
                                         IdsOfType(cached_result.items, UpsellType),
                                      cached |-> "true",
                                      graceful_degradation |-> FALSE],
                             !.call = [call EXCEPT !.history = "not_fetched"]]
           ELSE IF history_fails
           THEN \* get_past_recommendations raised RuntimeError
                /\ generated = <<FilterCandidateA>> /\ kept = {} /\ stored = 0
                /\ svc' = [svc EXCEPT
                             !.ret = [NoServiceResult EXCEPT
                                         !.cached = "false",
                                         !.graceful_degradation = TRUE],
                             !.call = [call EXCEPT !.history = "failed"]]
           ELSE LET n == svc.cycles + 1
                    past == get_past_recommendations(svc.docs)
                    filtered == filter_past_recommendations(generated, past)
                    Kept(c) == c.recommendation_id \in kept
                    recs == SelectSeq(filtered, Kept)
                    items == [k \in 1..Len(recs) |-> service_document(recs[k], n)]
                IN  /\ svc.cycles < MaxCycles
                    /\ stored \in {0, Len(recs)}
                    /\ kept \subseteq {filtered[k].recommendation_id :
                                            k \in 1..Len(filtered)}
                    /\ svc' = [docs |-> cache_recommendations(svc.docs, recs, n, stored),
                               ret |-> [adoption_recommendations |->
                                            IdsOfType(items, AdoptionType),
                                        upsell_recommendations |->
                                            IdsOfType(items, UpsellType),
                                        cached |-> "false",
                                        graceful_degradation |-> FALSE],
                               call |-> [call EXCEPT !.history = "fetched",
                                                     !.orchestrator_runs = 1,
                                                     !.past = past,
                                                     !.generated = generated,
                                                     !.filtered = filtered],
                               cycles |-> n]
        /\ UNCHANGED <<r_usage, r_articles, r_out, filterVars, gateVars, storeVars>>
        /\ UNCHANGED cbVars
        /\ UNCHANGED orchVars

\* update_recommendation_outcome on the k-th document
ServiceRecordOutcome(k, outcome_status) ==
    /\ k \in 1..Len(svc.docs)
    /\ svc.docs[k].outcome_status # outcome_status
    /\ svc' = [svc EXCEPT !.docs[k] =
                  [@ EXCEPT !.outcome_status = outcome_status,
                            !.outcome_timestamp = [form |-> "naive", age_days |-> 0]],
                          !.ret = NoServiceResult,
                          !.call = NoServiceCall]
    /\ UNCHANGED <<r_usage, r_articles, r_out, filterVars, gateVars, storeVars>>
    /\ UNCHANGED cbVars
    /\ UNCHANGED orchVars

\* 24 hours pass: no stored document is within the freshness window any more
DayPasses ==
    /\ \E k \in 1..Len(svc.docs) : svc.docs[k].fresh
    /\ svc' = [svc EXCEPT !.docs =
                  [k \in 1..Len(svc.docs) |-> [svc.docs[k] EXCEPT !.fresh = FALSE]],
                          !.ret = NoServiceResult,
                          !.call = NoServiceCall]
    /\ UNCHANGED <<r_usage, r_articles, r_out, filterVars, gateVars, storeVars>>
    /\ UNCHANGED cbVars
    /\ UNCHANGED orchVars

NextService ==
    \/ \E force_refresh \in BOOLEAN, cache_fails \in BOOLEAN,
           history_fails \in BOOLEAN, generated \in ServiceCandidateInputs,
           kept \in SUBSET {FilterCandidateA.recommendation_id,
                            FilterCandidateB.recommendation_id} :
            \E stored \in 0..Len(generated) :
                ServiceGenerate(force_refresh, cache_fails, history_fails,
                                generated, kept, stored)
    \/ \E k \in 1..Len(svc.docs), outcome_status \in ServiceOutcomes :
            ServiceRecordOutcome(k, outcome_status)
    \/ DayPasses

SpecService == InitService /\ [][NextService]_vars

(***************************************************************************)
(* Claims about CircuitBreaker.call                                        *)
(***************************************************************************)
InFlight == {c \in Callers : pc[c] = "awaiting"}
InFlightProbes == {c \in Callers : pc[c] = "awaiting" /\ role[c] = "probe"}
Returned(c) == pc[c] = "awaiting" /\ pc'[c] = "idle" /\ ev' = "return"
Raised(c) == pc[c] = "awaiting" /\ pc'[c] = "idle" /\ ev' = "raise"
EnterStep == ev' \in {"admit", "reject"}
TimeoutElapsed ==
    breaker.last_failure_time # NoTime
    /\ now - breaker.last_failure_time >= timeout

\* C4: once failure_threshold calls in a row (counted from the initial Closed
\* state or from the last success) have had their wrapped operation raise, the
\* breaker is Open; and a call entered while the breaker is Open and less than
\* `timeout` has passed since the last recorded failure is rejected with
\* CircuitBreakerOpenError, leaves every call where it was (the wrapped operation
\* is not invoked).
C4_OpensAfterThresholdAndRejects ==
    [][ /\ (ev' = "raise" /\ consec' >= failure_threshold)
            => breaker'.state = OPEN
        /\ (breaker.state = OPEN /\ ~TimeoutElapsed /\ EnterStep)
            => (ev' = "reject" /\ pc' = pc /\ role' = role)
      ]_vars

C4_Witness ==
    /\ ev = "reject"
    /\ breaker.state = OPEN
    /\ breaker.failure_count = failure_threshold
    /\ consec = failure_threshold
    /\ now - breaker.last_failure_time < timeout

C7_ProbesInFlightBounded ==
    Cardinality(InFlightProbes) <= half_open_max_calls

(***************************************************************************)
(* Claims about ReasoningAgent.run                                         *)
(***************************************************************************)
Ids(s) == [k \in 1..Len(s) |-> s[k].recommendation_id]

\* the generated candidates that neither the history filter nor the sentiment
\* gate removes, in their generated order
Survivors(generated) ==
    LET Passes(c) ==
            /\ past_decision(c, r_out.past_recs) # "drop"
            /\ apply_sentiment_filter(<<c>>, r_out.sentiment_score,
                                      r_out.sentiment_factors) # <<>>
    IN  SelectSeq(generated, Passes)

\* C10: the output of ReasoningAgent.run holds at most 5 adoption and at most 3
\* upsell candidates, and the caps come last: the output lists are the first 5
\* (3) of the candidates that survive the history filter and the sentiment gate.
C10_CapsAfterFilters ==
    r_out.ran =>
        /\ Len(r_out.result.adoption_recommendations) <= 5
        /\ Len(r_out.result.upsell_recommendations) <= 3
        /\ Ids(r_out.result.adoption_recommendations)
             = Ids(Prefix(Survivors(r_out.result.generated_adoption), 5))
        /\ Ids(r_out.result.upsell_recommendations)
             = Ids(Prefix(Survivors(r_out.result.generated_upsell), 3))

\* more than 5 adoption candidates were generated, the history filter removed
\* some, and 5 are returned
C10_Witness ==
    /\ r_out.ran
    /\ Len(r_out.result.generated_adoption) > 5
    /\ Len(Survivors(r_out.result.generated_adoption))
         < Len(r_out.result.generated_adoption)
    /\ Len(r_out.result.adoption_recommendations) = 5

(***************************************************************************)
(* Claims about ReasoningAgent._filter_past_recommendations                *)
(***************************************************************************)
\* the past recommendations whose normalized text is that of candidate c
MatchesOf(c) ==
    {k \in 1..Len(f_in.past_recommendations) :
        normalize(f_in.past_recommendations[k].recommendation_text)
            = normalize(c.text_description)}

ReturnedIds == {f_out.result[k].recommendation_id : k \in 1..Len(f_out.result)}

OfType(s, type) == {k \in 1..Len(s) : s[k].recommendation_type = type}

\* a factor string that contains "unresolved" or "escalation"
NamesOpenIssue(factor) ==
    factor \in {unresolved_factor(n) : n \in 1..3} \cup {"recent_escalation"}

\* C12: the gate returns no Upsell candidate when the sentiment score is below
\* -0.2 or a sentiment factor names unresolved issues or an escalation, which
\* is the case whenever an interaction of the history is not Resolved; it
\* returns every Upsell candidate otherwise, a score of exactly -0.2 included;
\* and it returns every Adoption candidate whatever the score and the factors.
C12_SentimentGate ==
    g_out.ran =>
        LET score == g_in.sentiment.sentiment_score
            factors == g_in.sentiment.sentiment_factors
            gated == \/ score < -20
                     \/ \E k \in 1..Len(factors) : NamesOpenIssue(factors[k])
            Keeps(type) ==
                SelectSeq(g_out.result, LAMBDA r : r.recommendation_type = type)
                  = SelectSeq(g_in.recommendations,
                              LAMBDA r : r.recommendation_type = type)
        IN  /\ gated => OfType(g_out.result, UpsellType) = {}
            /\ ~gated => Keeps(UpsellType)
            /\ Keeps(AdoptionType)
            /\ (\E k \in 1..Len(g_in.interactions) :
                    g_in.interactions[k].resolution_status # "Resolved")
                  => OfType(g_out.result, UpsellType) = {}

\* a history of one resolved interaction gives a score of exactly -0.2 and the
\* upsell candidate is returned with the adoption candidate
C12_Witness ==
    /\ g_out.ran
    /\ Len(g_in.interactions) = 1
    /\ g_in.sentiment.sentiment_score = -20
    /\ g_in.interactions[1].resolution_status = "Resolved"
    /\ g_in.recommendations = <<FilterCandidateA, FilterCandidateB>>
    /\ g_out.result = g_in.recommendations

(***************************************************************************)
(* Claims about generation cycles                                          *)
(***************************************************************************)
StageRaised ==
    \/ retr.pc = "failed"
    \/ sent.pc = "failed"
    \/ reas.pc = "failed"
    \/ val.pc = "failed"
    \/ hist.contributions = "rejected"

ReturnedRecommendations ==
    result.adoption_recommendations \o result.upsell_recommendations

ReasoningCandidates ==
    reas.result.adoption_recommendations \o reas.result.upsell_recommendations

\* C1: a call of generate_recommendations with days > 0 never raises; once a
\* stage or the contribution assembly of the cycle has raised, the call is still
\* in Phase 1, in its except branch, or has returned, and what it has returned is
\* the degraded result: both lists and agent_contributions empty, success false,
\* graceful_degradation true, and the message of the exception as error.
C1_StageFailureDegrades ==
    /\ o_pc = "raised" => hist.days <= 0
    /\ StageRaised => o_pc \in {"phase1", "except", "returned"}
    /\ (StageRaised /\ o_pc = "returned") =>
        /\ result.kind = "degraded"
        /\ result.adoption_recommendations = <<>>
        /\ result.upsell_recommendations = <<>>
        /\ result.agent_contributions = <<>>
        /\ result.orchestration_metadata.success = "false"
        /\ result.orchestration_metadata.graceful_degradation = "true"
        /\ result.orchestration_metadata.error = hist.error
        /\ hist.error \notin {"none", "absent"}

\* the Reasoning stage raised and the call returned the degraded result
C1_Witness ==
    /\ o_pc = "returned"
    /\ hist.days > 0
    /\ reas.pc = "failed"
    /\ result.orchestration_metadata.success = "false"

\* C2: within a cycle the Reasoning stage has started only if both the Retrieval
\* and the Sentiment stage have completed successfully, the Validation stage has
\* started only if Reasoning has completed successfully, and when a Phase-1
\* stage has failed neither Reasoning nor Validation has started.
C2_StageOrder ==
    /\ reas.pc # "none" => (retr.pc = "done" /\ sent.pc = "done")
    /\ val.pc # "none" => reas.pc = "done"
    /\ (retr.pc = "failed" \/ sent.pc = "failed")
        => (reas.pc = "none" /\ val.pc = "none")

\* all four stages ran, Sentiment having completed before Retrieval
C2_Witness ==
    /\ val.pc = "done"
    /\ reas.pc = "done"
    /\ hist.p1_first = "Sentiment"
    /\ result.kind = "normal"

\* C3: every recommendation of a returned result is one of the candidates the
\* Reasoning stage of the cycle emitted, was not reported a duplicate, has a text
\* the content-safety collaborator reported safe, and has confidence >= 0.5; the
\* adoption list holds only type Adoption, the upsell list only type Upsell; and
\* no candidate recorded as blocked is returned.
C3_ReturnedAreValidated ==
    result.kind = "normal" =>
        /\ \A k \in 1..Len(ReturnedRecommendations) :
            LET r == ReturnedRecommendations[k]
            IN  /\ InSeq(r, ReasoningCandidates)
                /\ r.recommendation_id \notin val.duplicates
                /\ r.text_description \notin val.unsafe_texts
                /\ r.confidence_score >= ConfOne \div 2
                /\ \A j \in 1..Len(val.result.blocked_recommendations) :
                    val.result.blocked_recommendations[j].recommendation_id
                        # r.recommendation_id
        /\ \A k \in 1..Len(result.adoption_recommendations) :
            result.adoption_recommendations[k].recommendation_type = AdoptionType
        /\ \A k \in 1..Len(result.upsell_recommendations) :
            result.upsell_recommendations[k].recommendation_type = UpsellType

\* a result that returns a recommendation while another candidate of the cycle
\* was removed for its text
C3_Witness ==
    /\ result.kind = "normal"
    /\ ReturnedRecommendations # <<>>
    /\ val.unsafe_texts # {}
    /\ val.result.validation_summary.content_safety_blocked > 0

\* C8: after failure_threshold usage queries in a row have failed, each in a
\* request of its own, no usage query is admitted to the usage source.
C8_BreakerSharedAcrossRequests ==
    consec >= failure_threshold => retr.u_pc # "awaiting_source"

\* C9: when the breaker rejects the usage query, get_usage_trends has returned
\* the empty list and the usage source was not invoked in that cycle; Retrieval
\* then fails only if the knowledge search fails, completes with empty usage data
\* and the articles of the initial search, and a degraded result of that cycle
\* does not carry the error of the usage query.
C9_RejectionYieldsEmptyUsage ==
    retr.u_how = "rejected" =>
        /\ retr.u_pc = "done"
        /\ retr.usage_data = <<>>
        /\ ~retr.source_invoked
        /\ retr.pc = "failed" => retr.k_pc = "failed"
        /\ retr.pc = "done" => retr.all_articles = retr.knowledge_articles
        /\ retr.error # "usage_fetch"
        /\ hist.error # "usage_fetch"
        /\ result.orchestration_metadata.error # "usage_fetch"

\* the breaker is Open, the usage query of the cycle was rejected, and the cycle
\* ran all four stages and returned a normal result
C9_Witness ==
    /\ breaker.state = OPEN
    /\ retr.u_how = "rejected"
    /\ retr.pc = "done"
    /\ val.pc = "done"
    /\ result.kind = "normal"

(***************************************************************************)
(* Claims about ValidationAgent.run within a cycle                         *)
(***************************************************************************)
\* the reasons recorded for candidate c among the blocked recommendations
ReasonsFor(c) ==
    {k \in 1..Len(val.result.blocked_recommendations) :
        val.result.blocked_recommendations[k].recommendation_id
            = c.recommendation_id}

ReasonOf(c) ==
    val.result.blocked_recommendations[CHOOSE k \in ReasonsFor(c) : TRUE].block_reason

\* C13: a candidate that ValidationAgent.run does not return as validated is
\* recorded once among the blocked recommendations, with the first step that
\* removed it as the reason: duplicate if the duplicate check reported it, else
\* content_safety if its text was not reported safe, else low_confidence; a
\* validated candidate is not recorded, and no reason is "unknown".
C13_BlockReasonPriority ==
    val.pc = "done" =>
        \A i \in 1..Len(ReasoningCandidates) :
            LET c == ReasoningCandidates[i]
                duplicate == c.recommendation_id \in val.duplicates
                unsafe == c.text_description \in val.unsafe_texts
                low == c.confidence_score < ConfOne \div 2
            IN  IF InSeq(c, val.result.validated_recommendations)
                THEN ReasonsFor(c) = {}
                ELSE /\ Cardinality(ReasonsFor(c)) = 1
                     /\ ReasonOf(c) # "unknown"
                     /\ duplicate => ReasonOf(c) = "duplicate"
                     /\ (~duplicate /\ unsafe) => ReasonOf(c) = "content_safety"
                     /\ (~duplicate /\ ~unsafe) =>
                            low /\ ReasonOf(c) = "low_confidence"

\* the text of a candidate below the confidence threshold is not reported
\* safe: two steps would remove it, and it is recorded as "content_safety"
C13_Witness ==
    /\ val.pc = "done"
    /\ \E i \in 1..Len(ReasoningCandidates) :
          /\ ReasoningCandidates[i].recommendation_id \notin val.duplicates
          /\ ReasoningCandidates[i].text_description \in val.unsafe_texts
          /\ ReasoningCandidates[i].confidence_score < ConfOne \div 2
          /\ ReasonsFor(ReasoningCandidates[i]) # {}
          /\ ReasonOf(ReasoningCandidates[i]) = "content_safety"

(***************************************************************************)
(* Claims about the result of a cycle                                      *)
(***************************************************************************)
AllStagesCompleted ==
    /\ retr.pc = "done"
    /\ sent.pc = "done"
    /\ reas.pc = "done"
    /\ val.pc = "done"

\* C14: a call whose four stages all completed without raising returns a
\* non-degraded result with exactly four agent contributions, one per agent
\* type Retrieval, Sentiment, Reasoning and Validation, all with the id of the
\* cycle, whatever execution times (0 included) and confidences the stages
\* reported.
C14_FourContributions ==
    (o_pc = "returned" /\ AllStagesCompleted) =>
        /\ result.kind = "normal"
        /\ Len(result.agent_contributions) = 4
        /\ {result.agent_contributions[k].agent_type : k \in 1..4} = Stages
        /\ \A k \in 1..4 :
              result.agent_contributions[k].recommendation_id = "cycle"

\* C15: every result a call returns, normal or degraded, has an
\* orchestration_metadata with a latency value, latency_target_met and success;
\* success is true exactly when the cycle completed normally, and false, with
\* error present, exactly when the result is degraded.
C15_UniformResultSurface ==
    o_pc = "returned" =>
        /\ {"generation_time_ms", "latency_target_met", "success"}
              \subseteq result.orchestration_metadata.keys
        /\ result.kind = "normal"
              <=> result.orchestration_metadata.success = "true"
        /\ result.kind = "degraded"
              <=> result.orchestration_metadata.success = "false"
        /\ result.kind = "degraded"
              => "error" \in result.orchestration_metadata.keys

(***************************************************************************)
(* Claims about the recommendations container                              *)
(***************************************************************************)
AllowedTransitions ==
    { <<"Pending", "Delivered">>, <<"Delivered", "Accepted">>,
      <<"Delivered", "Declined">>, <<"Declined", "Excluded">> }

\* C16: the outcome status of a stored recommendation changes only along
\* Pending -> Delivered, Delivered -> Accepted, Delivered -> Declined and
\* Declined -> Excluded: the last change of every document is one of these.
C16_OutcomeStateMachine ==
    \A id \in RecommendationIds :
        (store[id].present /\ store[id].previous_status # "none")
            => <<store[id].previous_status, store[id].outcome_status>>
                    \in AllowedTransitions

\* C17: every stored recommendation whose outcome status is not Pending has a
\* delivered-by-agent id and an outcome timestamp that are not null.
C17_NonPendingHasAgentAndTimestamp ==
    \A id \in RecommendationIds :
        (store[id].present /\ store[id].outcome_status # "Pending")
            => /\ store[id].delivered_by_agent_id # NullAgent
               /\ store[id].outcome_timestamp # NoTimestamp

\* one document was cached and then updated to Delivered and to Accepted; the
\* other is still as cached
C17_Witness ==
    /\ store["rec_a"].present
    /\ store["rec_a"].outcome_status = "Accepted"
    /\ store["rec_a"].previous_status = "Delivered"
    /\ store["rec_b"] = cached_document

(***************************************************************************)
(* Claims about the latency target and the precondition of a call          *)
(***************************************************************************)
\* C18: a call in which no stage and no contribution record raised returns the
\* normal result with the validated recommendations whatever its measured
\* time, also above 2000 ms; and latency_target_met of a normal result is true
\* if and only if generation_time_ms <= 2000.
C18_LatencyIsObservational ==
    /\ (o_pc = "returned" /\ AllStagesCompleted /\ ~StageRaised) =>
          /\ result.kind = "normal"
          /\ \A k \in 1..Len(val.result.validated_recommendations) :
                InSeq(val.result.validated_recommendations[k],
                      ReturnedRecommendations)
          /\ Len(ReturnedRecommendations)
                = Len(val.result.validated_recommendations)
    /\ (o_pc = "returned" /\ result.kind = "normal") =>
          (result.orchestration_metadata.latency_target_met = "true"
              <=> result.generation_time_ms <= 2000)
    /\ (o_pc = "returned" /\ result.kind = "normal") =>
          result.orchestration_metadata.latency_target_met \in {"true", "false"}

\* a cycle measured at 2400 ms returned validated recommendations, flagged as
\* having missed the target
C18_Witness ==
    /\ o_pc = "returned"
    /\ result.kind = "normal"
    /\ result.generation_time_ms = 2400
    /\ ReturnedRecommendations # <<>>
    /\ result.orchestration_metadata.latency_target_met = "false"

\* C19: a call of generate_recommendations with days <= 0 raises to the caller
\* and does nothing else: no stage has been started, no source has been
\* queried, no contribution has been assembled, and no result, degraded or
\* not, exists; a call that has started a stage or returned has days > 0.
C19_NonPositiveDaysRaises ==
    /\ (o_pc # "idle" /\ hist.days <= 0) => o_pc = "raised"
    /\ o_pc = "raised" =>
          /\ hist.days <= 0
          /\ retr = NoRetrieval
          /\ sent = NoSentiment
          /\ reas = NoReasoning
          /\ val = NoValidation
          /\ result = NoResult
          /\ hist.contributions = NoHistory.contributions

\* the call with days = 0 has raised
C19_Witness ==
    /\ o_pc = "raised"
    /\ hist.days = 0
    /\ retr.pc = "none"
    /\ sent.pc = "none"

InBlock == {c \in Callers : pc[c] = "in_block"}
RecoveryBlocks == {c \in Callers : pc[c] = "in_block" /\ role[c] = "recovery_block"}

\* C21: `async with breaker:` makes the transitions call() makes: __aenter__
\* admits exactly when call() would and leaves the breaker as the entry of
\* call() would; a block entered while the breaker was recovering whose body
\* ends normally leaves the breaker Closed with failure count 0; and at most
\* half_open_max_calls blocks entered while recovering are running at a time.
C21_ContextManagerMatchesCall ==
    [][ /\ ev' \in {"block_admit", "block_reject"} =>
              /\ (ev' = "block_admit") = call_admission(breaker, now).admitted
              /\ breaker' = call_admission(breaker, now).b
        /\ \A c \in Callers :
              (/\ pc[c] = "in_block"
               /\ role[c] = "recovery_block"
               /\ pc'[c] = "idle"
               /\ ev' = "block_exit") =>
                    /\ breaker'.state = CLOSED
                    /\ breaker'.failure_count = 0
        /\ Cardinality(RecoveryBlocks') <= half_open_max_calls
      ]_vars

\* C29: under any interleaving of call()s and `async with` blocks, a Closed
\* breaker has a failure count below failure_threshold, and the half-open call
\* count is between 0 and half_open_max_calls.
C29_BreakerInvariant ==
    /\ breaker.state = CLOSED => breaker.failure_count < failure_threshold
    /\ breaker.half_open_calls >= 0
    /\ breaker.half_open_calls <= half_open_max_calls
    /\ breaker.failure_count >= 0

\* a block failed while the breaker was Closed with threshold - 1 failures on
\* record and a probe admitted by call() has since counted itself
C29_Witness ==
    /\ breaker.state = HALF_OPEN
    /\ breaker.half_open_calls = half_open_max_calls
    /\ breaker.failure_count >= failure_threshold
    /\ InBlock # {}
    /\ InFlightProbes # {}

(***************************************************************************)
(* Claims about interleaved call()s                                        *)
(***************************************************************************)
\* C22: under interleaved call()s the breaker leaves HalfOpen only when the
\* wrapped operation of a call admitted as a HalfOpen probe returns or raises;
\* a call admitted while the breaker was Closed that completes while the
\* breaker is HalfOpen neither closes nor re-opens it.
C22_OnlyProbesLeaveHalfOpen ==
    [][ (breaker.state = HALF_OPEN /\ breaker'.state # HALF_OPEN) =>
            \E c \in Callers :
                role[c] = "probe" /\ (Returned(c) \/ Raised(c)) ]_vars

\* every call entered now would be rejected, now and at any later time, and
\* no call is in progress that could change the breaker
RejectsForever ==
    /\ InFlight = {}
    /\ breaker.state = HALF_OPEN
    /\ breaker.half_open_calls >= half_open_max_calls

\* C23: the breaker never reaches a state from which every later call is
\* rejected: however the admitted calls ended (return, exception or
\* cancellation), once no call is in progress the breaker is Closed, or Open
\* with a recorded failure time (so that a call is admitted once the timeout
\* has passed), or HalfOpen with a probe still to be admitted.
C23_NeverStuck ==
    /\ ~RejectsForever
    /\ InFlight = {} =>
          \/ breaker.state = CLOSED
          \/ breaker.state = OPEN /\ breaker.last_failure_time # NoTime
          \/ call_admission(breaker, now).admitted

\* C30: a call rejected with CircuitBreakerOpenError, because the breaker is
\* Open and the timeout has not elapsed or because it is HalfOpen with
\* half_open_max_calls probes counted, leaves state, failure count,
\* last-failure time and half-open call count as they were.
C30_RejectionChangesNothing ==
    [][ ev' = "reject" =>
          /\ breaker' = breaker
          /\ \/ breaker.state = OPEN /\ ~TimeoutElapsed
             \/ /\ breaker.state = HALF_OPEN
                /\ breaker.half_open_calls >= half_open_max_calls
      ]_vars

\* a call was rejected while the breaker was HalfOpen with its probe running
C30_Witness ==
    /\ ev = "reject"
    /\ breaker.state = HALF_OPEN
    /\ breaker.half_open_calls = half_open_max_calls
    /\ InFlightProbes # {}

(***************************************************************************)
(* Claims about a history with several records of one text                 *)
(***************************************************************************)
\* past recommendation p satisfies one of the three drop rules
SatisfiesDropRule(p) ==
    LET d == days_since_outcome(p.outcome_timestamp)
    IN  \/ p.outcome_status = "Declined" /\ d # NoDays /\ d < 90
        \/ p.outcome_status = "Pending"
        \/ p.outcome_status = "Accepted" /\ d # NoDays /\ d < 30

\* C25: when several past recommendations have the normalized text of a
\* candidate, the filter drops the candidate if any one of them satisfies a
\* drop rule, whatever their order in the history.
C25_AnyMatchingRecordDrops ==
    f_out.ran =>
        \A i \in 1..Len(f_in.recommendations) :
            LET c == f_in.recommendations[i]
            IN  (\E k \in MatchesOf(c) :
                    SatisfiesDropRule(f_in.past_recommendations[k]))
                => c.recommendation_id \notin ReturnedIds

(***************************************************************************)
(* Claims about RecommendationService.generate_recommendations             *)
(***************************************************************************)
\* C24: a recommendation persisted by _cache_recommendations and still Pending
\* is part of the history a later orchestrator run passes to the Reasoning
\* stage, and a candidate of that run with the same normalized text is dropped
\* by the history filter.
C24_PendingStoredTextIsDropped ==
    svc.call.orchestrator_runs = 1 =>
        /\ \A t \in svc.call.pending_before :
              \E k \in 1..Len(svc.call.past) :
                  svc.call.past[k].outcome_status = "Pending"
        /\ \A i \in 1..Len(svc.call.generated) :
              LET c == svc.call.generated[i]
              IN  (\E t \in svc.call.pending_before :
                      normalize(t) = normalize(c.text_description))
                  => ~InSeq(c, svc.call.filtered)

\* the ids the last call returned
ServiceReturnedIds ==
    {svc.ret.adoption_recommendations[k] :
        k \in 1..Len(svc.ret.adoption_recommendations)}
    \cup {svc.ret.upsell_recommendations[k] :
            k \in 1..Len(svc.ret.upsell_recommendations)}

\* the last call found a usable cache: it was not forced, and the container
\* held a Pending recommendation generated within 24 hours that the lookup
\* returned
CacheUsable ==
    /\ ~svc.call.force_refresh
    /\ svc.call.fresh_pending # <<>>
    /\ svc.call.cache # "failed"

CachedAnswer ==
    /\ svc.ret.cached = "true"
    /\ svc.call.orchestrator_runs = 0
    /\ ServiceReturnedIds =
          {svc.call.fresh_pending[k].recommendation_id :
              k \in 1..Len(svc.call.fresh_pending)}

\* C27 as stated: with a usable cache the stored recommendations are returned
\* with cached = true and the orchestrator is not started; in every other case
\* (forced, nothing fresh and Pending, or the lookup failed) the orchestrator
\* runs exactly once and the result has cached = false.
C27_CacheOrExactlyOneRun ==
    svc.call.cache # "none" =>
        /\ CacheUsable => CachedAnswer
        /\ ~CacheUsable =>
              /\ svc.call.orchestrator_runs = 1
              /\ svc.ret.cached = "false"

\* C27, amended: as stated, except that when get_past_recommendations raises
\* the orchestrator is not started at all and the call returns the degraded
\* result, empty and with cached = false.
C27_CacheOrAtMostOneRun ==
    svc.call.cache # "none" =>
        /\ CacheUsable => CachedAnswer
        /\ ~CacheUsable =>
              /\ svc.ret.cached = "false"
              /\ IF svc.call.history = "failed"
                 THEN /\ svc.call.orchestrator_runs = 0
                      /\ svc.ret.graceful_degradation
                      /\ ServiceReturnedIds = {}
                 ELSE /\ svc.call.orchestrator_runs = 1
                      /\ svc.call.history = "fetched"
                      /\ ~svc.ret.graceful_degradation

\* a call answered from the cache although an older recommendation, accepted
\* since, is stored as well
C27_Witness ==
    /\ svc.call.cache = "hit"
    /\ svc.ret.cached = "true"
    /\ svc.call.orchestrator_runs = 0
    /\ ServiceReturnedIds # {}
    /\ \E k \in 1..Len(svc.docs) :
          /\ svc.docs[k].outcome_status = "Accepted"
          /\ svc.docs[k].recommendation_id \notin ServiceReturnedIds

(***************************************************************************)
(* Claims about RetrievalAgent.run                                         *)
(***************************************************************************)
\* the fallback of _build_search_query: "product adoption recommendations"
FallbackQuery == build_search_query(<<>>)

DistinctArticleIds(articles) ==
    \A i, j \in 1..Len(articles) :
        i # j => articles[i].article_id # articles[j].article_id

RelevanceNonIncreasing(articles) ==
    \A i \in 1..(Len(articles) - 1) :
        articles[i].relevance_score >= articles[i + 1].relevance_score

\* C26: every successful RetrievalAgent.run has completed the usage fetch and
\* the initial search, has then issued the second search with the refined
\* query (the fallback query when the usage fetch returned nothing), and
\* returns articles with pairwise distinct ids in non-increasing relevance
\* order.
C26_RefinedSearchAlwaysIssued ==
    retr.pc = "done" =>
        /\ retr.u_pc = "done"
        /\ retr.k_pc = "done"
        /\ retr.refined_query = build_search_query(retr.usage_data)
        /\ retr.usage_data = <<>> => retr.refined_query = FallbackQuery
        /\ DistinctArticleIds(retr.all_articles)
        /\ RelevanceNonIncreasing(retr.all_articles)

(***************************************************************************)
(* Claims about the order of the lists ReasoningAgent.run returns          *)
(***************************************************************************)
ConfidenceNonIncreasing(recs) ==
    \A i \in 1..(Len(recs) - 1) :
        recs[i].confidence_score >= recs[i + 1].confidence_score

\* C28: for every input to ReasoningAgent.run, in any order of the usage
\* records and the knowledge articles, the adoption list and the upsell list
\* returned are each in non-increasing confidence order, and are the surviving
\* candidates in the relative order in which they were generated.
C28_ListsSortedByConfidence ==
    r_out.ran =>
        /\ ConfidenceNonIncreasing(r_out.result.adoption_recommendations)
        /\ ConfidenceNonIncreasing(r_out.result.upsell_recommendations)
        /\ Ids(r_out.result.adoption_recommendations)
             = Prefix(Ids(Survivors(r_out.result.generated_adoption)), 5)
        /\ Ids(r_out.result.upsell_recommendations)
             = Prefix(Ids(Survivors(r_out.result.generated_upsell)), 3)

====
